---------------------------- MODULE Spec2Model ----------------------------
(***************************************************************************)
(* A model of the autotune GC tuner (package autotune).                    *)
(*                                                                         *)
(* Units.  Durations are integers: pauses and TargetLatency in             *)
(* microseconds, the clock, MonitorInterval and StabilizationWindow in     *)
(* seconds.  A float64 is an exact rational <<num, den>> (den > 0, lowest  *)
(* terms) or one of the non-finite values NegInf, NaN, PosInf.  A Go int   *)
(* is a two's complement integer in MinInt..MaxInt (the model narrows the  *)
(* width so that TLC's integers can hold it; every finite value of the     *)
(* model is far below MaxInt).  The workloads are chosen so that no        *)
(* product or quotient of the control law lands on a boundary where        *)
(* float64 rounding and exact arithmetic truncate or compare differently.  *)
(***************************************************************************)
EXTENDS Integers, Sequences, FiniteSets, TLC

(***************************************************************************)
(* Bounds of the model.                                                    *)
(***************************************************************************)
\* Timer ticks delivered to the workers over a run of Spec.
MaxTicks == 2
\* Timer ticks delivered to the worker over a run of TuningSpec.
MaxTuningTicks == 5
\* Worker goroutines that Start may spawn over a run.
MaxWorkers == 2
\* Timer ticks delivered to the worker over a run of LongRunSpec.
MaxLongTicks == 102
\* Longest decision history handed to shouldSkipDueToOscillation in GuardSpec.
MaxGuardHistory == 5
\* Samples in the history when the tick of LawSpec starts.
LawHistory == 4
\* Calls of recordMetrics over a run of ObsSpec.
MaxRecords == 1002
\* Timer ticks delivered to the worker over a run of SuppressSpec.
MaxSuppressTicks == 3
\* Timer ticks delivered to the worker over a run of StepSpec.
MaxStepTicks == 5
\* Timer ticks delivered to the worker over a run of SubscriberSpec.
MaxSubscriberTicks == 2
\* Timer ticks delivered to the worker over a run of HookSpec.
MaxHookTicks == 4

(***************************************************************************)
(* Go int arithmetic (two's complement, wrapping).                         *)
(***************************************************************************)
IntHalf == 2^29
MinInt == -IntHalf
MaxInt == IntHalf - 1

Wrap(x) == ((x + IntHalf) % (2 * IntHalf)) - IntHalf

\* func abs(x int) int
abs(x) == IF x < 0 THEN Wrap(-x) ELSE x

(***************************************************************************)
(* float64 arithmetic, exact on the values of the model.                   *)
(***************************************************************************)
RECURSIVE GCD(_, _)
GCD(a, b) == IF b = 0 THEN a ELSE GCD(b, a % b)

Mag(x) == IF x < 0 THEN -x ELSE x

Sign(x) == IF x < 0 THEN -1 ELSE IF x > 0 THEN 1 ELSE 0

\* n/d in lowest terms with a positive denominator (d # 0).
Rat(n, d) ==
    LET g == GCD(Mag(n), Mag(d))
        s == IF d < 0 THEN -1 ELSE 1
    IN  << (s * n) \div g, (s * d) \div g >>

NegInf == << -1 >>
NaN == << 0 >>
PosInf == << 1 >>

IsFinite(x) == Len(x) = 2
IsNaN(x) == x = NaN
FInt(n) == << n, 1 >>
\* The sign of a float that is not NaN.
FSign(x) == Sign(x[1])
FInf(s) == IF s < 0 THEN NegInf ELSE PosInf

FNeg(x) == IF IsFinite(x) THEN << -x[1], x[2] >> ELSE << -x[1] >>

FAdd(x, y) ==
    IF IsFinite(x) /\ IsFinite(y) THEN Rat(x[1] * y[2] + y[1] * x[2], x[2] * y[2])
    ELSE IF IsNaN(x) \/ IsNaN(y) THEN NaN
    ELSE IF IsFinite(x) THEN y
    ELSE IF IsFinite(y) THEN x
    ELSE IF x = y THEN x ELSE NaN

FSub(x, y) == FAdd(x, FNeg(y))

FMul(x, y) ==
    IF IsFinite(x) /\ IsFinite(y) THEN Rat(x[1] * y[1], x[2] * y[2])
    ELSE IF IsNaN(x) \/ IsNaN(y) THEN NaN
    ELSE IF FSign(x) = 0 \/ FSign(y) = 0 THEN NaN
    ELSE FInf(FSign(x) * FSign(y))

\* x / y for a finite y; a zero divisor gives an infinity or NaN.
FDiv(x, y) ==
    IF IsNaN(x) THEN NaN
    ELSE IF ~IsFinite(x) THEN FInf(FSign(x) * (IF y[1] < 0 THEN -1 ELSE 1))
    ELSE IF y[1] # 0 THEN Rat(x[1] * y[2], x[2] * y[1])
    ELSE IF x[1] = 0 THEN NaN
    ELSE FInf(FSign(x))

\* n1/d1 > n2/d2 for positive denominators, by continued fractions (no
\* product of the operands is formed).
RECURSIVE RatGt(_, _, _, _)
RatGt(n1, d1, n2, d2) ==
    IF n1 \div d1 # n2 \div d2 THEN n1 \div d1 > n2 \div d2
    ELSE IF n1 % d1 = 0 THEN FALSE
    ELSE IF n2 % d2 = 0 THEN TRUE
    ELSE RatGt(d2, n2 % d2, d1, n1 % d1)

\* x > y and x < y; false when either side is NaN.
FGt(x, y) ==
    IF IsNaN(x) \/ IsNaN(y) THEN FALSE
    ELSE IF IsFinite(x) /\ IsFinite(y) THEN RatGt(x[1], x[2], y[1], y[2])
    ELSE IF IsFinite(x) THEN y = NegInf
    ELSE IF IsFinite(y) THEN x = PosInf
    ELSE x = PosInf /\ y = NegInf

FLt(x, y) == FGt(y, x)

\* The integer part of a finite float, rounding toward zero.
Trunc(x) == Sign(x[1]) * (Mag(x[1]) \div x[2])

\* int(x): a conversion of a value that int cannot represent succeeds with
\* an implementation-dependent result (the most negative int on amd64;
\* saturation, and 0 for NaN, on arm64).
FloatToInt(x) ==
    IF IsFinite(x) THEN { Trunc(x) }
    ELSE IF x = NegInf THEN { MinInt }
    ELSE IF x = PosInf THEN { MinInt, MaxInt }
    ELSE { MinInt, 0, MaxInt }


(***************************************************************************)
(* Configuration.                                                          *)
(***************************************************************************)
\* func DefaultConfig() *Config
DefaultConfig ==
    [ MonitorInterval      |-> 30,
      MinGOGC              |-> 50,
      MaxGOGC              |-> 800,
      TargetLatency        |-> 10000,
      MemoryLimitPercent   |-> Rat(8, 10),
      TuningAggressiveness |-> Rat(3, 10),
      StabilizationWindow  |-> 300,
      MaxChangePerInterval |-> 50 ]

\* func validateConfig(config *Config) error
validateConfig(config) ==
    IF config.MonitorInterval < 1
    THEN "monitor interval must be at least 1 second"
    ELSE IF config.MinGOGC < 10 \/ config.MinGOGC > 1000
    THEN "min GOGC must be between 10 and 1000"
    ELSE IF config.MaxGOGC < config.MinGOGC \/ config.MaxGOGC > 2000
    THEN "max GOGC must be between min GOGC and 2000"
    ELSE IF FLt(config.TuningAggressiveness, Rat(1, 10))
            \/ FGt(config.TuningAggressiveness, FInt(2))
    THEN "tuning aggressiveness must be between 0.1 and 2.0"
    ELSE IF FLt(config.MemoryLimitPercent, Rat(1, 10))
            \/ FGt(config.MemoryLimitPercent, FInt(1))
    THEN "memory limit percent must be between 0.1 and 1.0"
    ELSE "nil"

(***************************************************************************)
(* The tuner's state.                                                      *)
(***************************************************************************)
VARIABLES
    config,             \* t.config
    containerResources, \* t.containerResources
    gcPercent,          \* the runtime's GC percent (debug.SetGCPercent)
    runtime,            \* the runtime's snapshot: recent pauses, heap in use, GC count
    now,                \* the wall clock, in seconds
    ticks,              \* timer ticks delivered so far
    mu,                 \* t.mu: "free", or the worker holding the write lock
    cancelled,          \* t.ctx is done
    running,            \* t.running
    metricsHistory,     \* t.metricsHistory
    decisionHistory,    \* t.decisionHistory
    onTuningDecision,   \* t.onTuningDecision
    onMetricsUpdate,    \* t.onMetricsUpdate
    lastGOGC,           \* t.lastGOGC
    stabilityCount,     \* t.stabilityCount
    totalDecisions,     \* t.totalDecisions
    workers,            \* the monitorLoop goroutines, in spawn order
    ret,                \* the last lifecycle call (Start, Stop) and its error
    hookLog,            \* calls of the subscriber hooks, and their panics
    files,              \* the files DetectContainerResources reads
    obs                 \* the ObservabilityServer: its config and metricsHistory

vars ==
    << config, containerResources, gcPercent, runtime, now, ticks, mu, cancelled,
       running, metricsHistory, decisionHistory, onTuningDecision,
       onMetricsUpdate, lastGOGC, stabilityCount, totalDecisions, workers, ret,
       hookLog, files, obs >>

\* A file that cannot be read, and the files of a host without cgroups and
\* without /proc.
Missing == [ kind |-> "missing" ]
NoFiles ==
    [ memoryMax |-> Missing, legacyLimit |-> Missing, cgroupLimit |-> Missing,
      memTotal |-> Missing, cpuMax |-> Missing, cfsQuota |-> Missing,
      cfsPeriod |-> Missing ]

\* No ObservabilityServer has been made for the tuner.
NoServer == [ kind |-> "none" ]

\* NewObservabilityServer: maxMetrics: 1000
maxMetrics == 1000

\* Tuner.maxHistory and Tuner.maxDecisions, set by NewTuner.
maxHistory == 100
maxDecisions == 50

(***************************************************************************)
(* Metrics collection.                                                     *)
(***************************************************************************)
RECURSIVE SumSeq(_)
SumSeq(s) == IF s = << >> THEN 0 ELSE Head(s) + SumSeq(Tail(s))

\* The average of the most recent pauses (gcStats.Pause is most recent first).
AveragePause(Pause) ==
    IF Len(Pause) > 0
    THEN LET count == IF Len(Pause) > 10 THEN 10 ELSE Len(Pause)
         IN  SumSeq(SubSeq(Pause, 1, count)) \div count
    ELSE 0

\* The collections since the last sample of the history, not per second.
GCCountSinceLast(history, NumGC, Timestamp) ==
    IF Len(history) > 0
    THEN LET prev == history[Len(history)]
             timeDiff == Timestamp - prev.Timestamp
         IN  IF timeDiff > 0 THEN FInt(NumGC - prev.NumGC) ELSE FInt(0)
    ELSE FInt(0)

\* GC frequency against the last sample of the history.
GCFrequencyOf(history, NumGC, Timestamp) ==
    IF Len(history) > 0
    THEN LET prev == history[Len(history)]
             timeDiff == Timestamp - prev.Timestamp
         IN  IF timeDiff > 0 THEN Rat(NumGC - prev.NumGC, timeDiff) ELSE FInt(0)
    ELSE FInt(0)

\* uint64(float64(ContainerMemLimit) * MemoryLimitPercent)
EffectiveLimit(limit, percent) == Trunc(FMul(FInt(limit), percent))

\* func (t *Tuner) collectMetrics() Metrics: the sample it returns.  Its
\* CurrentGOGC is what debug.SetGCPercent(-1) returns, the setting the call
\* replaced (the caller's action sets gcPercent to -1).
collectMetrics ==
    LET probe == runtime
        limit == containerResources.MemoryLimit
        effective == EffectiveLimit(limit, config.MemoryLimitPercent)
    IN  [ GCPauseTime       |-> AveragePause(probe.Pause),
          GCFrequency       |-> GCFrequencyOf(metricsHistory, probe.NumGC, now),
          HeapInuse         |-> probe.HeapInuse,
          NumGC             |-> probe.NumGC,
          MemoryLimit       |-> IF limit > 0 THEN effective ELSE 0,
          MemoryUsage       |-> IF limit > 0 THEN probe.HeapInuse ELSE 0,
          MemoryPressure    |-> IF limit > 0
                                THEN FDiv(FInt(probe.HeapInuse), FInt(effective))
                                ELSE FInt(0),
          ContainerMemLimit |-> limit,
          CurrentGOGC       |-> gcPercent,
          Timestamp         |-> now ]

(***************************************************************************)
(* The control law.                                                        *)
(***************************************************************************)
\* A latency factor pulling down above TargetLatency and pushing up below.
latencyFactorInverted(metrics) ==
    LET P == FInt(metrics.GCPauseTime)
        T == FInt(config.TargetLatency)
        a == config.TuningAggressiveness
    IN  IF metrics.GCPauseTime > config.TargetLatency
        THEN FSub(FInt(1), FMul(FSub(FDiv(P, T), FInt(1)), a))
        ELSE FAdd(FInt(1), FMul(FMul(FSub(FDiv(T, P), FInt(1)), a), Rat(1, 2)))

\* Factor 1 of calculateTargetGOGC: latency-based adjustment.
latencyFactor(metrics) ==
    LET P == FInt(metrics.GCPauseTime)
        T == FInt(config.TargetLatency)
        a == config.TuningAggressiveness
    IN  IF metrics.GCPauseTime > config.TargetLatency
        THEN FAdd(FInt(1), FMul(FSub(FDiv(P, T), FInt(1)), a))
        ELSE FSub(FInt(1), FMul(FMul(FSub(FDiv(T, P), FInt(1)), a), Rat(1, 2)))

\* Factor 2 of calculateTargetGOGC: memory pressure adjustment.
memoryFactor(metrics) ==
    LET m == metrics.MemoryPressure
        a == config.TuningAggressiveness
    IN  IF FGt(m, Rat(8, 10))
        THEN FSub(FInt(1), FMul(FMul(FSub(m, Rat(8, 10)), FInt(2)), a))
        ELSE IF FLt(m, Rat(4, 10))
        THEN FAdd(FInt(1), FMul(FMul(FSub(Rat(4, 10), m), Rat(3, 2)), a))
        ELSE FInt(1)

\* Factor 3 of calculateTargetGOGC: GC frequency adjustment.
frequencyFactor(metrics) ==
    LET f == metrics.GCFrequency
        a == config.TuningAggressiveness
    IN  IF FGt(f, FInt(2))
        THEN FAdd(FInt(1), FMul(FMul(FSub(f, FInt(2)), Rat(1, 10)), a))
        ELSE IF FLt(f, Rat(1, 10))
        THEN FSub(FInt(1), FMul(FMul(FSub(Rat(1, 10), f), Rat(1, 2)), a))
        ELSE FInt(1)

\* The combined factor after exponential smoothing (alpha = 0.3).
smoothedFactor(metrics) ==
    LET combinedFactor ==
            FDiv(FAdd(FAdd(latencyFactor(metrics), memoryFactor(metrics)),
                      frequencyFactor(metrics)), FInt(3))
        alpha == Rat(3, 10)
    IN  FAdd(FMul(alpha, combinedFactor), FMul(FSub(FInt(1), alpha), FInt(1)))

\* func (t *Tuner) calculateTargetGOGC(metrics Metrics) int: the values the
\* conversion int(float64(currentGOGC) * smoothedFactor) can produce.
calculateTargetGOGC(metrics) ==
    FloatToInt(FMul(FInt(metrics.CurrentGOGC), smoothedFactor(metrics)))

(***************************************************************************)
(* Gates.                                                                  *)
(***************************************************************************)
RECURSIVE GCDSeq(_)
GCDSeq(s) == IF s = << >> THEN 0 ELSE GCD(Head(s), GCDSeq(Tail(s)))

\* The square of calculateVariation (the coefficient of variation) of the
\* values: variance / mean^2, and 0 for fewer than 2 values or a zero mean.
\* The values are first divided by their common divisor, which leaves the
\* quotient as it is and keeps the squares small.
calculateVariationSq(values) ==
    IF Len(values) < 2 THEN FInt(0)
    ELSE LET n == Len(values)
             total == SumSeq(values)
             g == GCDSeq(values)
             v == [i \in 1..n |-> values[i] \div g]
             t == total \div g
             \* sum of (n*v - t)^2 = n^2 * sum of (v - mean)^2
             dev == SumSeq([i \in 1..n |-> (n * v[i] - t) * (n * v[i] - t)])
         IN  IF total = 0 THEN FInt(0)
             ELSE Rat(dev, n * t * t)

\* func (t *Tuner) calculateConfidence(metrics Metrics) float64
calculateConfidence(metrics) ==
    LET n == Len(metricsHistory)
        c1 == IF n < 5 THEN Rat(7, 10) ELSE FInt(1)
        recent == [i \in 1..3 |-> metricsHistory[n - 3 + i].GCPauseTime]
        \* pauseVariation > 0.3, compared on the squares
        c2 == IF n >= 3 /\ FGt(calculateVariationSq(recent), Rat(9, 100))
              THEN Rat(8, 10) ELSE FInt(1)
        c3 == IF metrics.CurrentGOGC <= config.MinGOGC + 20
                 \/ metrics.CurrentGOGC >= config.MaxGOGC - 20
              THEN Rat(9, 10) ELSE FInt(1)
        c4 == IF FGt(metrics.MemoryPressure, Rat(95, 100))
                 \/ FLt(metrics.MemoryPressure, Rat(5, 100))
              THEN Rat(8, 10) ELSE FInt(1)
    IN  FMul(FMul(FMul(FMul(FInt(1), c1), c2), c3), c4)

\* The guard without its time window: it skips for as long as the last four
\* decisions went both ways.
shouldSkipWhileMixed ==
    IF Len(decisionHistory) < 4 THEN FALSE
    ELSE LET recent == SubSeq(decisionHistory, Len(decisionHistory) - 3,
                              Len(decisionHistory))
         IN  /\ \E i \in 1..4 : recent[i].NewGOGC > recent[i].OldGOGC
             /\ \E i \in 1..4 : ~(recent[i].NewGOGC > recent[i].OldGOGC)

\* func (t *Tuner) shouldSkipDueToOscillation() bool
shouldSkipDueToOscillation ==
    IF Len(decisionHistory) < 4 THEN FALSE
    ELSE LET recent == SubSeq(decisionHistory, Len(decisionHistory) - 3,
                              Len(decisionHistory))
             increaseCount == Cardinality({i \in 1..4 : recent[i].NewGOGC > recent[i].OldGOGC})
             decreaseCount == Cardinality({i \in 1..4 : ~(recent[i].NewGOGC > recent[i].OldGOGC)})
         IN  /\ increaseCount > 0
             /\ decreaseCount > 0
             /\ now - recent[1].Timestamp < config.StabilizationWindow

\* makeTuningDecision, "Limit the change per interval".
RateLimit(currentGOGC, targetGOGC) ==
    LET change == Wrap(targetGOGC - currentGOGC)
    IN  IF abs(change) > config.MaxChangePerInterval
        THEN IF change > 0
             THEN Wrap(currentGOGC + config.MaxChangePerInterval)
             ELSE Wrap(currentGOGC - config.MaxChangePerInterval)
        ELSE targetGOGC

\* "Ensure bounds" without its first test.
EnsureUpperBound(targetGOGC) ==
    IF targetGOGC > config.MaxGOGC THEN config.MaxGOGC ELSE targetGOGC

\* "Ensure bounds" without its second test.
EnsureLowerBound(targetGOGC) ==
    IF targetGOGC < config.MinGOGC THEN config.MinGOGC ELSE targetGOGC

\* makeTuningDecision, "Ensure bounds".
EnsureBounds(targetGOGC) ==
    LET low == IF targetGOGC < config.MinGOGC THEN config.MinGOGC ELSE targetGOGC
    IN  IF low > config.MaxGOGC THEN config.MaxGOGC ELSE low

\* func (t *Tuner) buildReasonString(metrics, oldGOGC, newGOGC): the parts
\* the string is built from.
buildReasonString(metrics, oldGOGC, newGOGC) ==
    [ direction |-> IF newGOGC < oldGOGC THEN "decreasing" ELSE "increasing",
      oldGOGC   |-> oldGOGC,
      newGOGC   |-> newGOGC,
      pause     |-> metrics.GCPauseTime > config.TargetLatency,
      memory    |-> FGt(metrics.MemoryPressure, Rat(8, 10)),
      frequency |-> FGt(metrics.GCFrequency, FInt(2)) ]

\* The minimum change threshold of makeTuningDecision.
ChangeTooSmall(currentGOGC, targetGOGC) == abs(Wrap(targetGOGC - currentGOGC)) < 10

\* The confidence threshold lowered to one half.
ConfidenceBelowHalf(confidence) == FLt(confidence, Rat(1, 2))

\* The confidence threshold of makeTuningDecision.
ConfidenceTooLow(confidence) == FLt(confidence, Rat(6, 10))

\* func (t *Tuner) makeTuningDecision(metrics Metrics) *TuningDecision, for
\* the value rawTarget that calculateTargetGOGC returned: "nil" outcomes
\* carry why no decision was made.
\* A history gate that lets a single sample through.
HistoryEmpty == Len(metricsHistory) < 1

\* if len(t.metricsHistory) < 2: not enough data to make decisions.
NotEnoughData == Len(metricsHistory) < 2

makeTuningDecision(metrics, rawTarget) ==
    LET currentGOGC == metrics.CurrentGOGC
        targetGOGC == EnsureBounds(RateLimit(currentGOGC, rawTarget))
        confidence == calculateConfidence(metrics)
    IN  IF NotEnoughData THEN [ kind |-> "nil", why |-> "history" ]
        ELSE IF shouldSkipDueToOscillation THEN [ kind |-> "nil", why |-> "oscillation" ]
        ELSE IF ChangeTooSmall(currentGOGC, rawTarget) THEN [ kind |-> "nil", why |-> "stable" ]
        ELSE IF ConfidenceTooLow(confidence) THEN [ kind |-> "nil", why |-> "confidence" ]
        ELSE [ kind       |-> "decision",
               OldGOGC    |-> currentGOGC,
               NewGOGC    |-> targetGOGC,
               Reason     |-> buildReasonString(metrics, currentGOGC, targetGOGC),
               Confidence |-> confidence,
               Timestamp  |-> now,
               Metrics    |-> metrics ]

(***************************************************************************)
(* Environments: what a run starts from.                                   *)
(***************************************************************************)
\* A config with the strongest accepted gain, a wider per-tick change and a
\* lower ceiling.
AggressiveConfig ==
    [ DefaultConfig EXCEPT !.TuningAggressiveness = FInt(2),
                           !.MaxChangePerInterval = 100,
                           !.MaxGOGC = 150 ]

\* The config handed to NewTuner, GOGC at construction, and the memory limit
\* DetectContainerResources finds (0: none known).
Environments ==
    { [ config |-> DefaultConfig, gogc |-> 100, memoryLimit |-> 1000 ],
      [ config |-> AggressiveConfig, gogc |-> 100, memoryLimit |-> 1000 ] }

\* What the runtime reports after a timer period: its recent pauses (most
\* recent first, microseconds), the heap in use, and the collections
\* completed during the period.
NoPauses == [ Pause |-> << >>, HeapInuse |-> 400, dGC |-> 0 ]
ShortPauses == [ Pause |-> << 10 >>, HeapInuse |-> 400, dGC |-> 30 ]
OnTarget ==
    [ Pause |-> << 10000, 10000, 10000, 10000, 10000, 10000, 10000, 10000,
                   10000, 10000, 900000 >>,
      HeapInuse |-> 400, dGC |-> 30 ]
LongPauses == [ Pause |-> << 150000, 50000 >>, HeapInuse |-> 400, dGC |-> 93 ]
Pressure == [ Pause |-> << 10 >>, HeapInuse |-> 770, dGC |-> 30 ]

Workloads == { ShortPauses, OnTarget }

TuningWorkloads == { NoPauses, ShortPauses, OnTarget, LongPauses, Pressure }

\* The callbacks a subscriber setter is given: none, or a hook of user code.
Callbacks == { "nil", "hook" }

\* What a hook of user code does with the tuner before it returns.
HookCalls ==
    { "none", "GetStats", "GetMetrics", "SetOnTuningDecision",
      "SetOnMetricsUpdate", "Stop" }

NoMetrics == [ kind |-> "none" ]
NoDecision == [ kind |-> "none" ]
\* A worker's position in monitorLoop, the locals of its tuning cycle, and
\* how its last cycle ended.
NewWorker ==
    [ pc |-> "select", metrics |-> NoMetrics, decision |-> NoDecision,
      outcome |-> "none" ]

\* func NewTuner(config *Config) (*Tuner, error), for an accepted config:
\* GOGC is read with SetGCPercent(-1) and restored.
InitFrom(environments) ==
    \E env \in environments :
        /\ validateConfig(env.config) = "nil"
        /\ config = env.config
        /\ containerResources = [ MemoryLimit |-> env.memoryLimit ]
        /\ gcPercent = env.gogc
        /\ lastGOGC = env.gogc
        /\ runtime = [ Pause |-> << >>, HeapInuse |-> 400, NumGC |-> 0 ]
        /\ now = 0
        /\ ticks = 0
        /\ mu = 0
        /\ cancelled = FALSE
        /\ running = FALSE
        /\ metricsHistory = << >>
        /\ decisionHistory = << >>
        /\ onTuningDecision = "nil"
        /\ onMetricsUpdate = "nil"
        /\ stabilityCount = 0
        /\ totalDecisions = 0
        /\ workers = << >>
        /\ ret = [ op |-> "NewTuner", err |-> "nil" ]
        /\ hookLog = [ metrics |-> 0, decisions |-> 0, panics |-> 0 ]
        /\ files = NoFiles
        /\ obs = NoServer

(***************************************************************************)
(* The API, called by user code on any goroutine.  Each call holds t.mu    *)
(* from its first statement to its return, so it is one step, taken when   *)
(* the lock can be acquired.                                               *)
(***************************************************************************)
\* What no API call changes.
apiFrame ==
    UNCHANGED << files, obs, config, containerResources, runtime, now, ticks, mu,
                 metricsHistory, decisionHistory, lastGOGC, stabilityCount,
                 totalDecisions >>

\* A Stop that never refuses.
StopNeverRefused == FALSE

\* The guards of Start and Stop.
StartRefused == running
StopRefused == ~running

\* func (t *Tuner) Start() error
Start ==
    /\ mu = 0
    /\ IF StartRefused
       THEN /\ ret' = [ op |-> "Start", err |-> "tuner is already running" ]
            /\ UNCHANGED << running, workers >>
       ELSE /\ Len(workers) < MaxWorkers
            /\ running' = TRUE
            /\ workers' = Append(workers, NewWorker)
            /\ ret' = [ op |-> "Start", err |-> "nil" ]
    /\ UNCHANGED << gcPercent, cancelled, onTuningDecision, onMetricsUpdate, hookLog >>
    /\ apiFrame

\* func (t *Tuner) Stop() error, without the frame of its caller.
StopCall ==
    /\ mu = 0
    /\ IF StopRefused
       THEN /\ ret' = [ op |-> "Stop", err |-> "tuner is not running" ]
            /\ UNCHANGED << running, cancelled >>
       ELSE /\ running' = FALSE
            /\ cancelled' = TRUE
            /\ ret' = [ op |-> "Stop", err |-> "nil" ]
    /\ UNCHANGED << gcPercent, onTuningDecision, onMetricsUpdate >>
    /\ apiFrame

\* A GetMetrics that keeps the sample it returns.
GetMetricsStoring ==
    /\ mu = 0
    /\ gcPercent' = -1
    /\ ret' = [ op |-> "GetMetrics", err |-> "nil", val |-> collectMetrics ]
    /\ metricsHistory' =
           IF Len(metricsHistory) < maxHistory
           THEN Append(metricsHistory, collectMetrics)
           ELSE Append(Tail(metricsHistory), collectMetrics)
    /\ UNCHANGED << files, obs, config, containerResources, runtime, now, ticks, mu, running,
                    cancelled, decisionHistory, onTuningDecision, onMetricsUpdate,
                    lastGOGC, stabilityCount, totalDecisions >>

\* func (t *Tuner) GetMetrics() Metrics; val is the sample it returns.
GetMetricsCall ==
    /\ mu = 0
    /\ gcPercent' = -1
    /\ ret' = [ op |-> "GetMetrics", err |-> "nil", val |-> collectMetrics ]
    /\ UNCHANGED << running, cancelled, onTuningDecision, onMetricsUpdate >>
    /\ apiFrame

\* func (t *Tuner) GetStats() map[string]interface{}
GetStatsCall ==
    /\ mu = 0
    /\ gcPercent' = -1
    /\ UNCHANGED << running, cancelled, onTuningDecision, onMetricsUpdate, ret >>
    /\ apiFrame

\* func (t *Tuner) SetOnTuningDecision(callback func(TuningDecision))
SetOnTuningDecisionCall(callback) ==
    /\ mu = 0
    /\ onTuningDecision' = callback
    /\ UNCHANGED << gcPercent, running, cancelled, onMetricsUpdate, ret >>
    /\ apiFrame

\* A setter that keeps the hook already installed.
setOnMetricsUpdateKeepsFirst(callback) ==
    /\ mu = 0
    /\ onMetricsUpdate' = IF onMetricsUpdate = "nil" THEN callback ELSE onMetricsUpdate
    /\ UNCHANGED << gcPercent, running, cancelled, onTuningDecision, ret >>
    /\ apiFrame

\* func (t *Tuner) SetOnMetricsUpdate(callback func(Metrics))
SetOnMetricsUpdateCall(callback) ==
    /\ mu = 0
    /\ onMetricsUpdate' = callback
    /\ UNCHANGED << gcPercent, running, cancelled, onTuningDecision, ret >>
    /\ apiFrame

Stop == StopCall /\ UNCHANGED << workers, hookLog >>
GetMetrics == GetMetricsCall /\ UNCHANGED << workers, hookLog >>
GetStats == GetStatsCall /\ UNCHANGED << workers, hookLog >>
SetOnTuningDecision(callback) ==
    SetOnTuningDecisionCall(callback) /\ UNCHANGED << workers, hookLog >>
SetOnMetricsUpdate(callback) ==
    SetOnMetricsUpdateCall(callback) /\ UNCHANGED << workers, hookLog >>

\* The call a hook of user code makes into the tuner.
HookCall(call) ==
    CASE call = "GetStats" -> GetStatsCall
      [] call = "GetMetrics" -> GetMetricsCall
      [] call = "SetOnTuningDecision" -> \E cb \in Callbacks : SetOnTuningDecisionCall(cb)
      [] call = "SetOnMetricsUpdate" -> \E cb \in Callbacks : SetOnMetricsUpdateCall(cb)
      [] call = "Stop" -> StopCall

(***************************************************************************)
(* The worker: monitorLoop and performTuningCycle, step by step.           *)
(***************************************************************************)
At(w, label) == workers[w].pc = label

Goto(w, label) == workers' = [ workers EXCEPT ![w].pc = label ]

\* The end of performTuningCycle: back to monitorLoop's select.
EndCycle(w, outcome) ==
    workers' = [ workers EXCEPT ![w] = [ NewWorker EXCEPT !.outcome = outcome ] ]

\* monitorLoop: case <-t.ctx.Done()
Done(w) ==
    /\ At(w, "select")
    /\ cancelled
    /\ Goto(w, "exited")
    /\ UNCHANGED << files, obs, config, containerResources, gcPercent, runtime, now, ticks,
                    mu, cancelled, running, metricsHistory, decisionHistory,
                    onTuningDecision, onMetricsUpdate, lastGOGC, stabilityCount,
                    totalDecisions, ret, hookLog >>

\* monitorLoop: case <-ticker.C, after a timer period in which the runtime
\* has run workload.  select takes a ready case at random, so the tick may
\* be taken while ctx.Done() is ready too.
Fire(w, workload, limit) ==
    /\ At(w, "select")
    /\ ticks < limit
    /\ ticks' = ticks + 1
    /\ now' = now + config.MonitorInterval
    /\ runtime' = [ Pause     |-> workload.Pause,
                    HeapInuse |-> workload.HeapInuse,
                    NumGC     |-> runtime.NumGC + workload.dGC ]
    /\ Goto(w, "collect")
    /\ UNCHANGED << files, obs, config, containerResources, gcPercent, mu, cancelled,
                    running, metricsHistory, decisionHistory, onTuningDecision,
                    onMetricsUpdate, lastGOGC, stabilityCount, totalDecisions,
                    ret, hookLog >>

\* performTuningCycle: metrics := t.collectMetrics()
Collect(w) ==
    /\ At(w, "collect")
    /\ workers' = [ workers EXCEPT ![w].pc = "append", ![w].metrics = collectMetrics ]
    /\ gcPercent' = -1
    /\ UNCHANGED << files, obs, config, containerResources, runtime, now, ticks, mu,
                    cancelled, running, metricsHistory, decisionHistory,
                    onTuningDecision, onMetricsUpdate, lastGOGC, stabilityCount,
                    totalDecisions, ret, hookLog >>

\* append that starts the history afresh past the cap.
AppendOrReset(history, entry, cap) ==
    IF Len(history) + 1 > cap THEN << entry >> ELSE Append(history, entry)

\* append with no cap.
AppendUncapped(history, entry, cap) == Append(history, entry)

\* append with front-drop past the cap.
AppendCapped(history, entry, cap) ==
    LET grown == Append(history, entry)
    IN  IF Len(grown) > cap THEN Tail(grown) ELSE grown

\* The metrics callback reached with the sample not yet stored.
StoreMetricsLater(w) ==
    /\ At(w, "append")
    /\ mu = 0
    /\ Goto(w, "metricsHook")
    /\ UNCHANGED << files, obs, config, containerResources, gcPercent, runtime, now, ticks,
                    mu, cancelled, running, metricsHistory, decisionHistory,
                    onTuningDecision, onMetricsUpdate, lastGOGC, stabilityCount,
                    totalDecisions, ret, hookLog >>

\* performTuningCycle: store metrics history, under t.mu
StoreMetrics(w) ==
    /\ At(w, "append")
    /\ mu = 0
    /\ metricsHistory' = AppendCapped(metricsHistory, workers[w].metrics, maxHistory)
    /\ Goto(w, "metricsHook")
    /\ UNCHANGED << files, obs, config, containerResources, gcPercent, runtime, now, ticks,
                    mu, cancelled, running, decisionHistory, onTuningDecision,
                    onMetricsUpdate, lastGOGC, stabilityCount, totalDecisions,
                    ret, hookLog >>

\* performTuningCycle: no metrics callback is set
NoMetricsCallback(w) ==
    /\ At(w, "metricsHook")
    /\ onMetricsUpdate = "nil"
    /\ Goto(w, "decide")
    /\ UNCHANGED << files, obs, config, containerResources, gcPercent, runtime, now, ticks,
                    mu, cancelled, running, metricsHistory, decisionHistory,
                    onTuningDecision, onMetricsUpdate, lastGOGC, stabilityCount,
                    totalDecisions, ret, hookLog >>

\* performTuningCycle: t.onMetricsUpdate(metrics); the hook makes one call
\* into the tuner, or none, and returns.
MetricsCallback(w, call) ==
    /\ At(w, "metricsHook")
    /\ onMetricsUpdate # "nil"
    /\ hookLog' = [ hookLog EXCEPT !.metrics = @ + 1 ]
    /\ Goto(w, "decide")
    /\ IF call = "none"
       THEN UNCHANGED << files, obs, config, containerResources, gcPercent, runtime, now,
                         ticks, mu, cancelled, running, metricsHistory,
                         decisionHistory, onTuningDecision, onMetricsUpdate,
                         lastGOGC, stabilityCount, totalDecisions, ret >>
       ELSE HookCall(call)

\* performTuningCycle: decision := t.makeTuningDecision(metrics)
Decide(w) ==
    /\ At(w, "decide")
    /\ \E rawTarget \in calculateTargetGOGC(workers[w].metrics) :
          LET decision == makeTuningDecision(workers[w].metrics, rawTarget)
          IN  IF decision.kind = "decision"
              THEN /\ workers' = [ workers EXCEPT ![w].pc = "apply",
                                                  ![w].decision = decision ]
                   /\ UNCHANGED stabilityCount
              ELSE /\ EndCycle(w, decision.why)
                   /\ stabilityCount' =
                          IF decision.why = "stable" THEN stabilityCount + 1
                          ELSE stabilityCount
    /\ UNCHANGED << files, obs, config, containerResources, gcPercent, runtime, now, ticks,
                    mu, cancelled, running, metricsHistory, decisionHistory,
                    onTuningDecision, onMetricsUpdate, lastGOGC, totalDecisions,
                    ret, hookLog >>

\* The decision recorded as makeTuningDecision computed it.
ComputedDecision(decision) == decision

\* applyTuningDecision up to the callback: the decision as recorded, with
\* OldGOGC the setting that debug.SetGCPercent(decision.NewGOGC) replaced.
RecordedDecision(decision) == [ decision EXCEPT !.OldGOGC = gcPercent ]

\* func (t *Tuner) applyTuningDecision(decision TuningDecision), from
\* t.mu.Lock() to the callback; without a callback, to its return.
Apply(w) ==
    /\ At(w, "apply")
    /\ mu = 0
    /\ gcPercent' = workers[w].decision.NewGOGC
    /\ decisionHistory' =
           AppendCapped(decisionHistory, RecordedDecision(workers[w].decision),
                        maxDecisions)
    /\ totalDecisions' = totalDecisions + 1
    /\ lastGOGC' = workers[w].decision.NewGOGC
    /\ stabilityCount' = 0
    /\ IF onTuningDecision = "nil"
       THEN /\ EndCycle(w, "applied")
            /\ UNCHANGED << mu, hookLog >>
       ELSE /\ mu' = w
            /\ hookLog' = [ hookLog EXCEPT !.decisions = @ + 1 ]
            /\ workers' = [ workers EXCEPT
                              ![w].pc = "decisionHook",
                              ![w].decision = RecordedDecision(workers[w].decision) ]
    /\ UNCHANGED << files, obs, config, containerResources, runtime, now, ticks, cancelled,
                    running, metricsHistory, onTuningDecision, onMetricsUpdate,
                    ret >>

\* applyTuningDecision: t.onTuningDecision(decision) returns and the deferred
\* t.mu.Unlock() runs.
DecisionCallbackReturns(w) ==
    /\ At(w, "decisionHook")
    /\ mu' = 0
    /\ EndCycle(w, "applied")
    /\ UNCHANGED << files, obs, config, containerResources, gcPercent, runtime, now, ticks,
                    cancelled, running, metricsHistory, decisionHistory,
                    onTuningDecision, onMetricsUpdate, lastGOGC, stabilityCount,
                    totalDecisions, ret, hookLog >>

\* applyTuningDecision: inside t.onTuningDecision(decision) the hook calls
\* into the tuner; the call waits for t.mu, which its own goroutine holds.
DecisionCallbackCalls(w, call) ==
    /\ At(w, "decisionHook")
    /\ call # "none"
    /\ Goto(w, "blocked")
    /\ UNCHANGED << files, obs, config, containerResources, gcPercent, runtime, now, ticks,
                    mu, cancelled, running, metricsHistory, decisionHistory,
                    onTuningDecision, onMetricsUpdate, lastGOGC, stabilityCount,
                    totalDecisions, ret, hookLog >>

\* performTuningCycle: t.onMetricsUpdate(metrics) panics; the deferred
\* recover of performTuningCycle ends the cycle.
MetricsCallbackPanics(w) ==
    /\ At(w, "metricsHook")
    /\ onMetricsUpdate # "nil"
    /\ hookLog' = [ hookLog EXCEPT !.metrics = @ + 1, !.panics = @ + 1 ]
    /\ EndCycle(w, "panic")
    /\ UNCHANGED << files, obs, config, containerResources, gcPercent, runtime, now, ticks,
                    mu, cancelled, running, metricsHistory, decisionHistory,
                    onTuningDecision, onMetricsUpdate, lastGOGC, stabilityCount,
                    totalDecisions, ret >>

\* The decision hook panics and t.mu stays locked.
DecisionCallbackPanicsLocked(w) ==
    /\ At(w, "decisionHook")
    /\ hookLog' = [ hookLog EXCEPT !.panics = @ + 1 ]
    /\ EndCycle(w, "panic")
    /\ UNCHANGED << files, obs, config, containerResources, gcPercent, runtime, now, ticks,
                    mu, cancelled, running, metricsHistory, decisionHistory,
                    onTuningDecision, onMetricsUpdate, lastGOGC, stabilityCount,
                    totalDecisions, ret >>

\* applyTuningDecision: t.onTuningDecision(decision) panics; the deferred
\* t.mu.Unlock() runs, then the deferred recover of performTuningCycle ends
\* the cycle.
DecisionCallbackPanics(w) ==
    /\ At(w, "decisionHook")
    /\ mu' = 0
    /\ hookLog' = [ hookLog EXCEPT !.panics = @ + 1 ]
    /\ EndCycle(w, "panic")
    /\ UNCHANGED << files, obs, config, containerResources, gcPercent, runtime, now, ticks,
                    cancelled, running, metricsHistory, decisionHistory,
                    onTuningDecision, onMetricsUpdate, lastGOGC, stabilityCount,
                    totalDecisions, ret >>

Init == InitFrom(Environments)

Next ==
    \/ Start
    \/ Stop
    \/ GetMetrics
    \/ GetStats
    \/ \E callback \in Callbacks : SetOnTuningDecision(callback)
    \/ \E callback \in Callbacks : SetOnMetricsUpdate(callback)
    \/ \E w \in 1..Len(workers) : Done(w)
    \/ \E w \in 1..Len(workers), workload \in Workloads : Fire(w, workload, MaxTicks)
    \/ \E w \in 1..Len(workers) : Collect(w)
    \/ \E w \in 1..Len(workers) : StoreMetrics(w)
    \/ \E w \in 1..Len(workers) : NoMetricsCallback(w)
    \/ \E w \in 1..Len(workers), call \in HookCalls : MetricsCallback(w, call)
    \/ \E w \in 1..Len(workers) : Decide(w)
    \/ \E w \in 1..Len(workers) : Apply(w)
    \/ \E w \in 1..Len(workers) : DecisionCallbackReturns(w)
    \/ \E w \in 1..Len(workers), call \in HookCalls : DecisionCallbackCalls(w, call)

\* The tuner with every API call, hook and worker interleaved.
Spec == Init /\ [][Next]_vars

(***************************************************************************)
(* The tuning pipeline on its own: a decision subscriber that may be set   *)
(* before the one Start, an observer polling GetStats, and a wider range   *)
(* of runtime behaviour.                                                   *)
(***************************************************************************)
TuningNext ==
    \/ ~running /\ (\E callback \in Callbacks : SetOnTuningDecision(callback))
    \/ ~running /\ Start
    \/ GetStats
    \/ \E w \in 1..Len(workers), workload \in TuningWorkloads :
          Fire(w, workload, MaxTuningTicks)
    \/ \E w \in 1..Len(workers) : Collect(w)
    \/ \E w \in 1..Len(workers) : StoreMetrics(w)
    \/ \E w \in 1..Len(workers) : NoMetricsCallback(w)
    \/ \E w \in 1..Len(workers) : Decide(w)
    \/ \E w \in 1..Len(workers) : Apply(w)
    \/ \E w \in 1..Len(workers) : DecisionCallbackReturns(w)

TuningSpec == Init /\ [][TuningNext]_vars


(***************************************************************************)
(* One worker with subscribers set before Start: each hook returns or      *)
(* panics.                                                                 *)
(***************************************************************************)
HookNext ==
    \/ ~running /\ (\E callback \in Callbacks : SetOnTuningDecision(callback))
    \/ ~running /\ (\E callback \in Callbacks : SetOnMetricsUpdate(callback))
    \/ ~running /\ Start
    \/ \E w \in 1..Len(workers), workload \in Workloads :
          Fire(w, workload, MaxHookTicks)
    \/ \E w \in 1..Len(workers) : Collect(w)
    \/ \E w \in 1..Len(workers) : StoreMetrics(w)
    \/ \E w \in 1..Len(workers) : NoMetricsCallback(w)
    \/ \E w \in 1..Len(workers) : MetricsCallback(w, "none")
    \/ \E w \in 1..Len(workers) : MetricsCallbackPanics(w)
    \/ \E w \in 1..Len(workers) : Decide(w)
    \/ \E w \in 1..Len(workers) : Apply(w)
    \/ \E w \in 1..Len(workers) : DecisionCallbackReturns(w)
    \/ \E w \in 1..Len(workers) : DecisionCallbackPanics(w)

HookSpec == Init /\ [][HookNext]_vars

(***************************************************************************)
(* One worker under a steady workload, long enough for both histories to   *)
(* fill and drop entries.                                                  *)
(***************************************************************************)
LongRunNext ==
    \/ ~running /\ Start
    \/ \E w \in 1..Len(workers) : Fire(w, ShortPauses, MaxLongTicks)
    \/ \E w \in 1..Len(workers) : Collect(w)
    \/ \E w \in 1..Len(workers) : StoreMetrics(w)
    \/ \E w \in 1..Len(workers) : NoMetricsCallback(w)
    \/ \E w \in 1..Len(workers) : Decide(w)
    \/ \E w \in 1..Len(workers) : Apply(w)

LongRunSpec == Init /\ [][LongRunNext]_vars

(***************************************************************************)
(* shouldSkipDueToOscillation on its own, over decision histories of every *)
(* shape: each recorded decision raised the pacer ratio, lowered it or     *)
(* left it where it was, one decision per MonitorInterval, and the guard   *)
(* runs one interval or one hour after the last of them.                   *)
(***************************************************************************)
\* (OldGOGC, NewGOGC) of a recorded decision: up from a ratio collectMetrics
\* left at -1, up, down, and unchanged.
GuardChanges == { << -1, 50 >>, << 50, 100 >>, << 100, 50 >>, << 50, 50 >> }

GuardHistories ==
    UNION { [ 1..n -> GuardChanges ] : n \in 0..MaxGuardHistory }

GuardDecision(change, timestamp) ==
    [ kind |-> "decision", OldGOGC |-> change[1], NewGOGC |-> change[2],
      Timestamp |-> timestamp ]

GuardInit ==
    /\ config = DefaultConfig
    /\ containerResources = [ MemoryLimit |-> 1000 ]
    /\ gcPercent = -1
    /\ runtime = [ Pause |-> << >>, HeapInuse |-> 400, NumGC |-> 0 ]
    /\ ticks = 0
    /\ mu = 0
    /\ cancelled = FALSE
    /\ running = FALSE
    /\ metricsHistory = << >>
    /\ onTuningDecision = "nil"
    /\ onMetricsUpdate = "nil"
    /\ stabilityCount = 0
    /\ workers = << >>
    /\ ret = [ op |-> "NewTuner", err |-> "nil" ]
    /\ hookLog = [ metrics |-> 0, decisions |-> 0, panics |-> 0 ]
    /\ files = NoFiles
    /\ obs = NoServer
    /\ \E changes \in GuardHistories, wait \in { config.MonitorInterval, 3600 } :
          /\ decisionHistory =
                 [ i \in 1..Len(changes) |->
                     GuardDecision(changes[i], (i + 1) * config.MonitorInterval) ]
          /\ totalDecisions = Len(changes)
          /\ lastGOGC = IF changes = << >> THEN 100 ELSE changes[Len(changes)][2]
          /\ now = (Len(changes) + 1) * config.MonitorInterval + wait

\* makeTuningDecision, "Anti-oscillation logic": the guard's verdict.
OscillationGuard ==
    /\ ret.op # "shouldSkipDueToOscillation"
    /\ ret' = [ op |-> "shouldSkipDueToOscillation", err |-> "nil",
                val |-> shouldSkipDueToOscillation ]
    /\ UNCHANGED << files, obs, config, containerResources, gcPercent, runtime, now, ticks,
                    mu, cancelled, running, metricsHistory, decisionHistory,
                    onTuningDecision, onMetricsUpdate, lastGOGC, stabilityCount,
                    totalDecisions, workers, hookLog >>

GuardSpec == GuardInit /\ [][OscillationGuard]_vars

(***************************************************************************)
(* NewTuner on its own, over configs on both sides of every limit that the *)
(* Config fields have.                                                     *)
(***************************************************************************)
\* NewTuner(nil)
NilConfig == [ nil |-> TRUE ]

Configs ==
    [ MonitorInterval      : { 0, 1, 30 },
      MinGOGC              : { 9, 10, 50, 1000, 1001 },
      MaxGOGC              : { 49, 50, 800, 2000, 2001 },
      TargetLatency        : { 0, 10000 },
      MemoryLimitPercent   : { Rat(9, 100), Rat(1, 10), Rat(8, 10), FInt(1), Rat(11, 10) },
      TuningAggressiveness : { Rat(9, 100), Rat(1, 10), Rat(3, 10), FInt(2), Rat(21, 10) },
      StabilizationWindow  : { 0, 300 },
      MaxChangePerInterval : { 0, 50 } ]

\* The caller of NewTuner holds a config; no tuner exists.
ConfigInit ==
    /\ config \in Configs \cup { NilConfig }
    /\ containerResources = [ MemoryLimit |-> 0 ]
    /\ gcPercent = 100
    /\ lastGOGC = 0
    /\ runtime = [ Pause |-> << >>, HeapInuse |-> 400, NumGC |-> 0 ]
    /\ now = 0
    /\ ticks = 0
    /\ mu = 0
    /\ cancelled = FALSE
    /\ running = FALSE
    /\ metricsHistory = << >>
    /\ decisionHistory = << >>
    /\ onTuningDecision = "nil"
    /\ onMetricsUpdate = "nil"
    /\ stabilityCount = 0
    /\ totalDecisions = 0
    /\ workers = << >>
    /\ ret = [ op |-> "none", err |-> "nil" ]
    /\ hookLog = [ metrics |-> 0, decisions |-> 0, panics |-> 0 ]
    /\ files = NoFiles
    /\ obs = NoServer

\* func NewTuner(config *Config) (*Tuner, error); err "nil" returns a tuner.
NewTuner ==
    /\ ret.op = "none"
    /\ LET given == IF config = NilConfig THEN DefaultConfig ELSE config
           err == validateConfig(given)
       IN  /\ config' = given
           /\ ret' = [ op |-> "NewTuner", err |-> err ]
           /\ IF err = "nil"
              THEN /\ containerResources' = [ MemoryLimit |-> 1000 ]
                   /\ lastGOGC' = gcPercent
              ELSE UNCHANGED << containerResources, lastGOGC >>
    /\ UNCHANGED << gcPercent, runtime, now, ticks, mu, cancelled, running,
                    metricsHistory, decisionHistory, onTuningDecision,
                    onMetricsUpdate, stabilityCount, totalDecisions, workers,
                    hookLog, files, obs >>

ConfigSpec == ConfigInit /\ [][NewTuner]_vars

(***************************************************************************)
(* One tick on its own, from collectMetrics to applyTuningDecision, over   *)
(* the samples the control law distinguishes: the tuner has run LawHistory *)
(* ticks under a steady workload, and the pacer holds a ratio that the     *)
(* program has set since.                                                  *)
(***************************************************************************)
\* Half the full gain, and a per-tick change below the distance to a bound.
HalfConfig == [ DefaultConfig EXCEPT !.TuningAggressiveness = Rat(1, 2) ]
TightConfig == [ DefaultConfig EXCEPT !.MaxChangePerInterval = 3 ]

LawConfigs == { DefaultConfig, HalfConfig, TightConfig }

\* No pause on record, pauses under, on and over TargetLatency; heap at 0.5
\* and 0.9 of the effective limit; 0, 1 and 3 collections per second.
LawWorkloads ==
    [ Pause     : { << >>, << 2000 >>, << 10000 >>, << 50000 >> },
      HeapInuse : { 400, 720 },
      dGC       : { 0, 30, 90 } ]

\* The sample of tick i of the steady run.
PriorSample(i, workload, cfg, limit) ==
    LET effective == EffectiveLimit(limit, cfg.MemoryLimitPercent)
    IN  [ GCPauseTime       |-> AveragePause(workload.Pause),
          GCFrequency       |-> IF i = 1 THEN FInt(0)
                                ELSE Rat(workload.dGC, cfg.MonitorInterval),
          HeapInuse         |-> workload.HeapInuse,
          NumGC             |-> i * workload.dGC,
          MemoryLimit       |-> IF limit > 0 THEN effective ELSE 0,
          MemoryUsage       |-> IF limit > 0 THEN workload.HeapInuse ELSE 0,
          MemoryPressure    |-> IF limit > 0
                                THEN FDiv(FInt(workload.HeapInuse), FInt(effective))
                                ELSE FInt(0),
          ContainerMemLimit |-> limit,
          CurrentGOGC       |-> -1,
          Timestamp         |-> i * cfg.MonitorInterval ]

LawInit ==
    \E cfg \in LawConfigs, limit \in { 0, 1000 }, workload \in LawWorkloads :
       \E ratio \in { 100, cfg.MaxGOGC - 5 } :
          /\ validateConfig(cfg) = "nil"
          /\ config = cfg
          /\ containerResources = [ MemoryLimit |-> limit ]
          /\ gcPercent = ratio
          /\ lastGOGC = 100
          /\ runtime = [ Pause     |-> workload.Pause,
                         HeapInuse |-> workload.HeapInuse,
                         NumGC     |-> (LawHistory + 1) * workload.dGC ]
          /\ now = (LawHistory + 1) * cfg.MonitorInterval
          /\ ticks = LawHistory + 1
          /\ mu = 0
          /\ cancelled = FALSE
          /\ running = TRUE
          /\ metricsHistory =
                 [ i \in 1..LawHistory |-> PriorSample(i, workload, cfg, limit) ]
          /\ decisionHistory = << >>
          /\ onTuningDecision = "nil"
          /\ onMetricsUpdate = "nil"
          /\ stabilityCount = 0
          /\ totalDecisions = 0
          /\ workers = << [ NewWorker EXCEPT !.pc = "collect" ] >>
          /\ ret = [ op |-> "Start", err |-> "nil" ]
          /\ hookLog = [ metrics |-> 0, decisions |-> 0, panics |-> 0 ]
          /\ files = NoFiles
          /\ obs = NoServer

LawNext ==
    \/ \E w \in 1..Len(workers) : Collect(w)
    \/ \E w \in 1..Len(workers) : StoreMetrics(w)
    \/ \E w \in 1..Len(workers) : NoMetricsCallback(w)
    \/ \E w \in 1..Len(workers) : Decide(w)
    \/ \E w \in 1..Len(workers) : Apply(w)

LawSpec == LawInit /\ [][LawNext]_vars

(***************************************************************************)
(* Container resource detection on its own, over the contents its files    *)
(* can have.  Byte counts are uint64, at a width that TLC's integers can   *)
(* hold: Uint64Half stands for 1<<63.                                      *)
(***************************************************************************)
Uint64Half == 2^20
WrapUint64(x) == x % (2 * Uint64Half)

\* What a file holds: the token "max", text that is no number, or a number.
Max == [ kind |-> "max" ]
Garbage == [ kind |-> "text" ]
Number(n) == [ kind |-> "number", value |-> n ]

\* What a probe returns.
Found(limit) == [ err |-> "nil", val |-> limit ]
NotFound(err) == [ err |-> err, val |-> 0 ]

\* func readCgroupV2MemoryLimit() (uint64, error): memory.max, then
\* /sys/fs/cgroup/memory/memory.limit_in_bytes.
readCgroupV2MemoryLimit(f) ==
    LET usable(file) ==
            /\ file.kind = "number"
            /\ file.value < Uint64Half
            /\ file.value > 0
    IN  IF usable(f.memoryMax) THEN Found(f.memoryMax.value)
        ELSE IF usable(f.legacyLimit) THEN Found(f.legacyLimit.value)
        ELSE NotFound("cgroup v2 memory limit not found")

\* func readCgroupV1MemoryLimit() (uint64, error): memory.limit_in_bytes under
\* the path findCgroupPath("memory") finds; Missing when it finds none.
readCgroupV1MemoryLimit(f) ==
    IF f.cgroupLimit.kind = "missing" THEN NotFound("no such file")
    ELSE IF f.cgroupLimit.kind # "number" THEN NotFound("invalid syntax")
    ELSE IF f.cgroupLimit.value >= Uint64Half \/ f.cgroupLimit.value = 0
    THEN NotFound("no memory limit set")
    ELSE Found(f.cgroupLimit.value)

\* func readProcMemInfo() (uint64, error): the MemTotal line, in kB.
readProcMemInfo(f) ==
    IF f.memTotal.kind = "missing" THEN NotFound("no such file")
    ELSE IF f.memTotal.kind # "number"
    THEN NotFound("MemTotal not found in /proc/meminfo")
    ELSE Found(WrapUint64(f.memTotal.value * 1024))

\* func detectMemoryLimit() (uint64, error)
detectMemoryLimit(f) ==
    IF readCgroupV2MemoryLimit(f).err = "nil" THEN readCgroupV2MemoryLimit(f)
    ELSE IF readCgroupV1MemoryLimit(f).err = "nil" THEN readCgroupV1MemoryLimit(f)
    ELSE IF readProcMemInfo(f).err = "nil" THEN readProcMemInfo(f)
    ELSE NotFound("unable to detect memory limit")

\* func readCgroupV2CPULimit() (float64, error): cpu.max holds the token
\* "max", or a quota and a period.
readCgroupV2CPULimit(f) ==
    IF f.cpuMax.kind = "missing" THEN NotFound("cgroup v2 CPU limit not found")
    ELSE IF f.cpuMax.kind = "max" THEN NotFound("no CPU limit set")
    ELSE IF /\ f.cpuMax.quota.kind = "number"
            /\ f.cpuMax.period.kind = "number"
            /\ f.cpuMax.period.value > 0
    THEN Found(Rat(f.cpuMax.quota.value, f.cpuMax.period.value))
    ELSE NotFound("cgroup v2 CPU limit not found")

\* func readCgroupV1CPULimit() (float64, error): cpu.cfs_quota_us and
\* cpu.cfs_period_us under the path findCgroupPath("cpu") finds.
readCgroupV1CPULimit(f) ==
    IF f.cfsQuota.kind = "missing" \/ f.cfsPeriod.kind = "missing"
    THEN NotFound("no such file")
    ELSE IF f.cfsQuota.kind # "number" \/ f.cfsPeriod.kind # "number"
    THEN NotFound("invalid syntax")
    ELSE IF f.cfsQuota.value <= 0 \/ f.cfsPeriod.value <= 0
    THEN NotFound("no CPU limit set")
    ELSE Found(Rat(f.cfsQuota.value, f.cfsPeriod.value))

\* func detectCPULimit() (float64, error)
detectCPULimit(f) ==
    IF readCgroupV2CPULimit(f).err = "nil" THEN readCgroupV2CPULimit(f)
    ELSE IF readCgroupV1CPULimit(f).err = "nil" THEN readCgroupV1CPULimit(f)
    ELSE NotFound("unable to detect CPU limit")

\* Limits of 500, 600 and 700 bytes, no limit (0, "max", 1<<63), and a
\* MemTotal of 0, of 1 kB, and of as many kB as make 1<<63 and 1<<64 bytes.
ProbedFiles ==
    [ memoryMax   : { Missing, Max, Garbage, Number(0), Number(500),
                      Number(Uint64Half) },
      legacyLimit : { Missing, Number(0), Number(600), Number(Uint64Half) },
      cgroupLimit : { Missing, Garbage, Number(0), Number(700),
                      Number(Uint64Half) },
      memTotal    : { Missing, Garbage, Number(0), Number(1),
                      Number(Uint64Half \div 1024),
                      Number((2 * Uint64Half) \div 1024) },
      cpuMax      : { Missing, Max }
                    \cup [ kind   : { "fields" },
                           quota  : { Garbage, Number(0), Number(50000) },
                           period : { Number(0), Number(100000) } ],
      cfsQuota    : { Missing, Number(-1), Number(0), Number(200000) },
      cfsPeriod   : { Missing, Number(100000) } ]

\* The process is about to probe its files; no tuner exists.
ProbeInit ==
    /\ files \in ProbedFiles
    /\ obs = NoServer
    /\ config = DefaultConfig
    /\ containerResources = [ MemoryLimit |-> 0 ]
    /\ gcPercent = 100
    /\ lastGOGC = 0
    /\ runtime = [ Pause |-> << >>, HeapInuse |-> 400, NumGC |-> 0 ]
    /\ now = 0
    /\ ticks = 0
    /\ mu = 0
    /\ cancelled = FALSE
    /\ running = FALSE
    /\ metricsHistory = << >>
    /\ decisionHistory = << >>
    /\ onTuningDecision = "nil"
    /\ onMetricsUpdate = "nil"
    /\ stabilityCount = 0
    /\ totalDecisions = 0
    /\ workers = << >>
    /\ ret = [ op |-> "none", err |-> "nil", val |-> 0 ]
    /\ hookLog = [ metrics |-> 0, decisions |-> 0, panics |-> 0 ]

\* What a probe leaves alone.
probeFrame ==
    UNCHANGED << files, obs, config, containerResources, gcPercent, runtime,
                 now, ticks, mu, cancelled, running, metricsHistory,
                 decisionHistory, onTuningDecision, onMetricsUpdate, lastGOGC,
                 stabilityCount, totalDecisions, workers, hookLog >>

DetectMemoryLimit ==
    /\ ret.op = "none"
    /\ ret' = [ op  |-> "detectMemoryLimit",
                err |-> detectMemoryLimit(files).err,
                val |-> detectMemoryLimit(files).val ]
    /\ probeFrame

DetectCPULimit ==
    /\ ret.op = "none"
    /\ ret' = [ op  |-> "detectCPULimit",
                err |-> detectCPULimit(files).err,
                val |-> detectCPULimit(files).val ]
    /\ probeFrame

ProbeNext == DetectMemoryLimit \/ DetectCPULimit

ProbeSpec == ProbeInit /\ [][ProbeNext]_vars

(***************************************************************************)
(* Cancellation under fair scheduling: the goroutine of a worker keeps     *)
(* running while it has a step to take, and select takes a case that is    *)
(* ready again and again (it picks among the ready cases at random).       *)
(* Nothing obliges the program to call Start or Stop, the timer to tick,   *)
(* or a hook to leave the tuner alone.                                     *)
(***************************************************************************)
\* One step of performTuningCycle by worker w, makeTuningDecision apart; the
\* hooks return here.
CycleStep(w) ==
    /\ w \in 1..Len(workers)
    /\ \/ Collect(w)
       \/ StoreMetrics(w)
       \/ NoMetricsCallback(w)
       \/ MetricsCallback(w, "none")
       \/ Apply(w)
       \/ DecisionCallbackReturns(w)

\* Worker w is about to call makeTuningDecision, and worker w has called it:
\* the call takes no lock and always returns.
DecideReady(w) == w \in 1..Len(workers) /\ At(w, "decide")
DecideStep(w) == w \in 1..Len(workers) /\ Decide(w)

\* monitorLoop of worker w takes case <-t.ctx.Done().
LeaveLoop(w) == w \in 1..Len(workers) /\ Done(w)

StopNext ==
    \/ ~running /\ (\E callback \in Callbacks : SetOnTuningDecision(callback))
    \/ ~running /\ (\E callback \in Callbacks : SetOnMetricsUpdate(callback))
    \/ ~running /\ Start
    \/ Stop
    \/ \E w \in 1..Len(workers) : Done(w)
    \/ \E w \in 1..Len(workers) : Fire(w, ShortPauses, MaxTicks)
    \/ \E w \in 1..Len(workers) : Collect(w)
    \/ \E w \in 1..Len(workers) : StoreMetrics(w)
    \/ \E w \in 1..Len(workers) : NoMetricsCallback(w)
    \/ \E w \in 1..Len(workers), call \in { "none", "Stop" } : MetricsCallback(w, call)
    \/ \E w \in 1..Len(workers) : Decide(w)
    \/ \E w \in 1..Len(workers) : Apply(w)
    \/ \E w \in 1..Len(workers) : DecisionCallbackReturns(w)
    \/ \E w \in 1..Len(workers) : DecisionCallbackCalls(w, "GetStats")

\* Weak fairness of the steps of a cycle (for Decide as "always eventually
\* not ready or taken", its enabling condition being DecideReady), strong
\* fairness of leaving the loop.
FairScheduling ==
    \A w \in 1..MaxWorkers :
        /\ WF_vars(CycleStep(w))
        /\ ([]<>(~DecideReady(w)) \/ []<><<DecideStep(w)>>_vars)
        /\ SF_vars(LeaveLoop(w))

StopSpec == Init /\ [][StopNext]_vars /\ FairScheduling

(***************************************************************************)
(* The observability server's own metrics history: recordMetrics is the    *)
(* metrics hook that ObservabilityServer.Start registers, so it is called  *)
(* once per tick, one timer period after the other.                        *)
(***************************************************************************)
\* func DefaultObservabilityConfig() *ObservabilityConfig: 24 h, in seconds.
DefaultObservabilityConfig == [ MetricsRetention |-> 24 * 3600 ]

\* A retention of ten minutes.
ShortRetentionConfig == [ MetricsRetention |-> 600 ]

\* An ObservabilityConfig literal that leaves MetricsRetention out.
ZeroRetentionConfig == [ MetricsRetention |-> 0 ]

\* func NewObservabilityServer(config, tuner) *ObservabilityServer
NewObservabilityServer(obsConfig) ==
    [ kind |-> "server", config |-> obsConfig, maxMetrics |-> maxMetrics,
      metricsHistory |-> << >> ]

\* recordMetrics drops the newest entry past the cap.
capMetricsDropsNewest(history, cap) ==
    IF Len(history) > cap THEN SubSeq(history, 1, Len(history) - 1) ELSE history

\* recordMetrics: if len(obs.metricsHistory) > obs.maxMetrics, drop the first.
capMetrics(history, cap) ==
    IF Len(history) > cap THEN Tail(history) ELSE history

\* recordMetrics: the history from its first entry after the cutoff on; the
\* loop leaves the history alone when no entry is after the cutoff.
retained(history, cutoff) ==
    LET after == { i \in 1..Len(history) : history[i].Timestamp > cutoff }
    IN  IF after = { } THEN history
        ELSE LET first == CHOOSE i \in after : \A j \in after : i <= j
             IN  SubSeq(history, first, Len(history))

ObsInit ==
    /\ \E obsConfig \in { DefaultObservabilityConfig, ShortRetentionConfig,
                         ZeroRetentionConfig } :
          obs = NewObservabilityServer(obsConfig)
    /\ config = DefaultConfig
    /\ containerResources = [ MemoryLimit |-> 1000 ]
    /\ gcPercent = 100
    /\ lastGOGC = 100
    /\ runtime = [ Pause |-> << >>, HeapInuse |-> 400, NumGC |-> 0 ]
    /\ now = 0
    /\ ticks = 0
    /\ mu = 0
    /\ cancelled = FALSE
    /\ running = TRUE
    /\ metricsHistory = << >>
    /\ decisionHistory = << >>
    /\ onTuningDecision = "nil"
    /\ onMetricsUpdate = "hook"
    /\ stabilityCount = 0
    /\ totalDecisions = 0
    /\ workers = << >>
    /\ ret = [ op |-> "Start", err |-> "nil" ]
    /\ hookLog = [ metrics |-> 0, decisions |-> 0, panics |-> 0 ]
    /\ files = NoFiles

\* func (obs *ObservabilityServer) recordMetrics(metrics Metrics), called
\* with the sample of the next tick: the samples are numbered as they come.
recordMetrics ==
    /\ obs.kind = "server"
    /\ hookLog.metrics < MaxRecords
    /\ now' = now + config.MonitorInterval
    /\ hookLog' = [ hookLog EXCEPT !.metrics = @ + 1 ]
    /\ LET timestamped == [ Metrics |-> hookLog.metrics + 1, Timestamp |-> now' ]
           cutoff == now' - obs.config.MetricsRetention
       IN  obs' = [ obs EXCEPT !.metricsHistory =
                       retained(capMetrics(Append(@, timestamped), obs.maxMetrics),
                                cutoff) ]
    /\ UNCHANGED << files, config, containerResources, gcPercent, runtime, ticks,
                    mu, cancelled, running, metricsHistory, decisionHistory,
                    onTuningDecision, onMetricsUpdate, lastGOGC, stabilityCount,
                    totalDecisions, workers, ret >>

ObsNext == recordMetrics

ObsSpec == ObsInit /\ [][ObsNext]_vars

(***************************************************************************)
(* Ticks under the oscillation guard.  The guard needs recorded decisions  *)
(* that raise and decisions that do not; one worker alone records OldGOGC  *)
(* -1 every time, so such a history comes from a run in which Start, Stop  *)
(* and Start left two workers ticking.  The run is taken up where the      *)
(* first worker has left monitorLoop and the second goes on with ticks     *)
(* that are ready together with ctx.Done(); both hooks are subscribed.     *)
(***************************************************************************)
\* The last four recorded changes: all raising, or raising and lowering.
SuppressChanges == [ 1..4 -> { << -1, 98 >>, << 98, 50 >> } ]

SuppressInit ==
    /\ config = DefaultConfig
    /\ containerResources = [ MemoryLimit |-> 1000 ]
    /\ runtime = [ Pause     |-> ShortPauses.Pause,
                   HeapInuse |-> ShortPauses.HeapInuse,
                   NumGC     |-> (LawHistory + 1) * ShortPauses.dGC ]
    /\ ticks = 0
    /\ mu = 0
    /\ cancelled = TRUE
    /\ running = TRUE
    /\ metricsHistory =
           [ i \in 1..(LawHistory + 1) |-> PriorSample(i, ShortPauses, config, 1000) ]
    /\ onTuningDecision = "hook"
    /\ onMetricsUpdate = "hook"
    /\ stabilityCount = 0
    /\ workers = << [ NewWorker EXCEPT !.pc = "exited" ], NewWorker >>
    /\ ret = [ op |-> "Start", err |-> "nil" ]
    /\ hookLog = [ metrics |-> 0, decisions |-> 0, panics |-> 0 ]
    /\ files = NoFiles
    /\ obs = NoServer
    /\ \E changes \in SuppressChanges,
          wait \in { 0, config.StabilizationWindow - 5 * config.MonitorInterval } :
          /\ decisionHistory =
                 [ i \in 1..4 |->
                     GuardDecision(changes[i], (i + 1) * config.MonitorInterval) ]
          /\ totalDecisions = 4
          /\ lastGOGC = changes[4][2]
          /\ gcPercent \in { -1, changes[4][2] }
          /\ now = (LawHistory + 1) * config.MonitorInterval + wait

SuppressNext ==
    \/ \E w \in 1..Len(workers) : Done(w)
    \/ \E w \in 1..Len(workers), workload \in Workloads :
          Fire(w, workload, MaxSuppressTicks)
    \/ \E w \in 1..Len(workers) : Collect(w)
    \/ \E w \in 1..Len(workers) : StoreMetrics(w)
    \/ \E w \in 1..Len(workers) : MetricsCallback(w, "none")
    \/ \E w \in 1..Len(workers) : Decide(w)
    \/ \E w \in 1..Len(workers) : Apply(w)
    \/ \E w \in 1..Len(workers) : DecisionCallbackReturns(w)

SuppressSpec == SuppressInit /\ [][SuppressNext]_vars

(***************************************************************************)
(* calculateConfidence on its own, over drawn histories and samples.       *)
(***************************************************************************)
\* The pauses of the last three samples: steady, varying, none.
ConfidencePauses ==
    { << 10000, 10000, 10000 >>, << 10000, 20000, 5000 >>, << 0, 0, 0 >> }

\* Ratios at, next to and away from the bounds of DefaultConfig, and the
\* ratio that collectMetrics leaves behind.
ConfidenceRatios == { -1, 50, 70, 71, 100, 779, 780, 800 }

\* Memory pressure: no limit known, 0.05, 0.5, 0.95, 0.96.
ConfidencePressures ==
    { FInt(0), Rat(1, 20), Rat(1, 2), Rat(19, 20), Rat(24, 25) }

ConfidenceInit ==
    /\ config = DefaultConfig
    /\ containerResources = [ MemoryLimit |-> 1000 ]
    /\ gcPercent = -1
    /\ lastGOGC = 100
    /\ runtime = [ Pause |-> << >>, HeapInuse |-> 400, NumGC |-> 0 ]
    /\ ticks = 0
    /\ mu = 0
    /\ cancelled = FALSE
    /\ running = TRUE
    /\ decisionHistory = << >>
    /\ onTuningDecision = "nil"
    /\ onMetricsUpdate = "nil"
    /\ stabilityCount = 0
    /\ totalDecisions = 0
    /\ ret = [ op |-> "Start", err |-> "nil" ]
    /\ hookLog = [ metrics |-> 0, decisions |-> 0, panics |-> 0 ]
    /\ files = NoFiles
    /\ obs = NoServer
    /\ \E n \in 2..6, pauses \in ConfidencePauses, ratio \in ConfidenceRatios,
          pressure \in ConfidencePressures :
          /\ now = n * config.MonitorInterval
          /\ metricsHistory =
                 [ i \in 1..n |->
                     [ PriorSample(i, OnTarget, config, 1000) EXCEPT
                         !.GCPauseTime = pauses[(i % 3) + 1],
                         !.CurrentGOGC = IF i = n THEN ratio ELSE -1,
                         !.MemoryPressure = IF i = n THEN pressure ELSE @ ] ]
          /\ workers = << [ NewWorker EXCEPT !.pc = "decide",
                                             !.metrics = metricsHistory[n] ] >>

\* makeTuningDecision: confidence := t.calculateConfidence(metrics)
Confidence ==
    /\ ret.op # "calculateConfidence"
    /\ ret' = [ op |-> "calculateConfidence", err |-> "nil",
                val |-> calculateConfidence(workers[1].metrics) ]
    /\ UNCHANGED << files, obs, config, containerResources, gcPercent, runtime, now, ticks,
                    mu, cancelled, running, metricsHistory, decisionHistory,
                    onTuningDecision, onMetricsUpdate, lastGOGC, stabilityCount,
                    totalDecisions, workers, hookLog >>

ConfidenceSpec == ConfidenceInit /\ [][Confidence]_vars

(***************************************************************************)
(* A step of the memory pressure: one worker, the pause of every tick the  *)
(* same, the heap in use at 0.3 of the effective limit for a tick or more  *)
(* and at 0.95 from then on.                                               *)
(***************************************************************************)
\* The constant pause: under, on and over TargetLatency.
StepPauses == { << 10 >>, << 10000 >>, << 50000 >> }

\* Heap in use at 0.3 and at 0.95 of the effective limit of 800.
LowHeap == 240
HighHeap == 760

StepInit ==
    /\ InitFrom({ [ config |-> DefaultConfig, gogc |-> 100, memoryLimit |-> 1000 ],
                  [ config |-> HalfConfig, gogc |-> 100, memoryLimit |-> 1000 ] })

StepNext ==
    \/ ~running /\ Start
    \/ \E w \in 1..Len(workers), pause \in StepPauses, heap \in { LowHeap, HighHeap } :
          /\ IF ticks = 0 THEN heap = LowHeap
             ELSE pause = runtime.Pause /\ heap >= runtime.HeapInuse
          /\ Fire(w, [ Pause |-> pause, HeapInuse |-> heap, dGC |-> 30 ], MaxStepTicks)
    \/ \E w \in 1..Len(workers) : Collect(w)
    \/ \E w \in 1..Len(workers) : StoreMetrics(w)
    \/ \E w \in 1..Len(workers) : NoMetricsCallback(w)
    \/ \E w \in 1..Len(workers) : Decide(w)
    \/ \E w \in 1..Len(workers) : Apply(w)

StepSpec == StepInit /\ [][StepNext]_vars

(***************************************************************************)
(* The subscribers of the metrics hook: user code, an AlertManager and an  *)
(* ObservabilityServer install their callbacks on one tuner, at any time,  *)
(* while one worker ticks.  The worker reads t.onMetricsUpdate twice and   *)
(* without t.mu, once for the nil check and once for the call; the build   *)
(* may keep the first value in a register or load the field again.         *)
(***************************************************************************)
\* The callbacks: a function of user code, am.checkAlerts, obs.recordMetrics.
Subscribers == { "user", "alerts", "obs" }

\* NewTuner with the default configuration; hookLog also has the callback
\* passed by the last SetOnMetricsUpdate call and the samples each callback
\* has received.
SubscriberInit ==
    /\ config = DefaultConfig
    /\ containerResources = [ MemoryLimit |-> 1000 ]
    /\ gcPercent = 100
    /\ lastGOGC = 100
    /\ runtime = [ Pause |-> << >>, HeapInuse |-> 400, NumGC |-> 0 ]
    /\ now = 0
    /\ ticks = 0
    /\ mu = 0
    /\ cancelled = FALSE
    /\ running = FALSE
    /\ metricsHistory = << >>
    /\ decisionHistory = << >>
    /\ onTuningDecision = "nil"
    /\ onMetricsUpdate = "nil"
    /\ stabilityCount = 0
    /\ totalDecisions = 0
    /\ workers = << >>
    /\ ret = [ op |-> "NewTuner", err |-> "nil" ]
    /\ hookLog = [ metrics |-> 0, decisions |-> 0, panics |-> 0, last |-> "nil",
                   received |-> [ s \in Subscribers |-> 0 ] ]
    /\ files = NoFiles
    /\ obs = NoServer

\* tuner.SetOnMetricsUpdate(callback), called by user code, by
\* NewAlertManager (am.checkAlerts) or by ObservabilityServer.Start
\* (obs.recordMetrics).
Subscribe(callback) ==
    /\ SetOnMetricsUpdateCall(callback)
    /\ hookLog' = [ hookLog EXCEPT !.last = callback ]
    /\ UNCHANGED workers

\* performTuningCycle: if t.onMetricsUpdate != nil, with a callback set.
CheckMetricsHook(w) ==
    /\ At(w, "metricsHook")
    /\ onMetricsUpdate # "nil"
    /\ workers' = [ workers EXCEPT ![w] = [ pc |-> "metricsCall",
                                            metrics |-> @.metrics,
                                            decision |-> @.decision,
                                            outcome |-> @.outcome,
                                            hook |-> onMetricsUpdate ] ]
    /\ UNCHANGED << files, obs, config, containerResources, gcPercent, runtime, now, ticks,
                    mu, cancelled, running, metricsHistory, decisionHistory,
                    onTuningDecision, onMetricsUpdate, lastGOGC, stabilityCount,
                    totalDecisions, ret, hookLog >>

\* performTuningCycle: t.onMetricsUpdate(metrics), on the value the check
\* read or on the value the field has now; the call of a nil function
\* panics and the deferred recover of performTuningCycle ends the cycle.
CallMetricsHook(w) ==
    /\ At(w, "metricsCall")
    /\ \E callback \in { workers[w].hook, onMetricsUpdate } :
          IF callback = "nil"
          THEN /\ hookLog' = [ hookLog EXCEPT !.panics = @ + 1 ]
               /\ EndCycle(w, "panic")
          ELSE /\ hookLog' = [ hookLog EXCEPT !.metrics = @ + 1,
                                              !.received[callback] = @ + 1 ]
               /\ Goto(w, "decide")
    /\ UNCHANGED << files, obs, config, containerResources, gcPercent, runtime, now, ticks,
                    mu, cancelled, running, metricsHistory, decisionHistory,
                    onTuningDecision, onMetricsUpdate, lastGOGC, stabilityCount,
                    totalDecisions, ret >>

SubscriberNext ==
    \/ ~running /\ Start
    \/ \E callback \in Subscribers \cup { "nil" } : Subscribe(callback)
    \/ \E w \in 1..Len(workers) : Fire(w, ShortPauses, MaxSubscriberTicks)
    \/ \E w \in 1..Len(workers) : Collect(w)
    \/ \E w \in 1..Len(workers) : StoreMetrics(w)
    \/ \E w \in 1..Len(workers) : NoMetricsCallback(w)
    \/ \E w \in 1..Len(workers) : CheckMetricsHook(w)
    \/ \E w \in 1..Len(workers) : CallMetricsHook(w)
    \/ \E w \in 1..Len(workers) : Decide(w)
    \/ \E w \in 1..Len(workers) : Apply(w)

SubscriberSpec == SubscriberInit /\ [][SubscriberNext]_vars

(***************************************************************************)
(* Properties of the emitted decisions.                                    *)
(***************************************************************************)
\* The decisions makeTuningDecision has returned and a worker is about to
\* apply, and the decisions recorded in the history.
PendingDecisions ==
    { workers[w].decision : w \in { v \in 1..Len(workers) : At(v, "apply") } }
RecordedDecisions == { decisionHistory[i] : i \in 1..Len(decisionHistory) }
InBounds(gogc) == config.MinGOGC <= gogc /\ gogc <= config.MaxGOGC

\* C1: every decision makeTuningDecision emits, and every decision the tick
\* then applies and records, has MinGOGC <= NewGOGC <= MaxGOGC, whatever the
\* sample, the history and the pacer ratio it started from; so has the ratio
\* last applied.
NewGOGCWithinBounds ==
    /\ \A d \in PendingDecisions \cup RecordedDecisions : InBounds(d.NewGOGC)
    /\ totalDecisions > 0 => InBounds(lastGOGC)

\* A recorded decision computed from a pacer ratio outside the bounds and
\* brought up to MinGOGC.
ClampedFromOutside ==
    \E d \in RecordedDecisions :
        /\ ~InBounds(d.Metrics.CurrentGOGC)
        /\ d.NewGOGC = config.MinGOGC

\* C2: every recorded decision has |NewGOGC - OldGOGC| <= MaxChangePerInterval,
\* OldGOGC being the value stored in the record.
RecordedChangeWithinLimit ==
    \A d \in RecordedDecisions :
        abs(Wrap(d.NewGOGC - d.OldGOGC)) <= config.MaxChangePerInterval

\* C3: every decision makeTuningDecision emits has |NewGOGC - OldGOGC| >= 10.
EmittedChangeAtLeastTen ==
    \A d \in PendingDecisions : abs(Wrap(d.NewGOGC - d.OldGOGC)) >= 10

\* C4: every emitted or recorded decision has 0.6 <= Confidence <= 1.0, and
\* a tick whose confidence is below 0.6 ends at makeTuningDecision: it
\* appends nothing to the decision history, applies nothing and does not
\* call the decision hook.
ConfidenceGate ==
    [][ /\ \A d \in PendingDecisions' \cup RecordedDecisions' :
              /\ ~FLt(d.Confidence, Rat(6, 10))
              /\ ~FGt(d.Confidence, FInt(1))
        /\ \A w \in 1..Len(workers) :
              ( /\ At(w, "decide")
                /\ workers'[w].pc # "decide"
                /\ FLt(calculateConfidence(workers[w].metrics), Rat(6, 10)) )
              => /\ workers'[w].pc = "select"
                 /\ UNCHANGED << decisionHistory, totalDecisions, gcPercent,
                                 lastGOGC, hookLog >> ]_vars

\* A tick that ended for low confidence while a decision hook was set and an
\* earlier decision was on record.
LowConfidenceTick ==
    /\ onTuningDecision # "nil"
    /\ decisionHistory # << >>
    /\ \E w \in 1..Len(workers) : workers[w].outcome = "confidence"

\* C5: of three decisions applied one after the other, the last two within
\* StabilizationWindow of each other, the third never moves the ratio
\* against the second (up after down, or down after up).
NoConsecutiveReversal ==
    \A i \in 2..(Len(decisionHistory) - 1) :
        LET first == decisionHistory[i - 1].NewGOGC
            second == decisionHistory[i].NewGOGC
            third == decisionHistory[i + 1].NewGOGC
        IN  decisionHistory[i + 1].Timestamp - decisionHistory[i].Timestamp
                < config.StabilizationWindow
            => /\ ~(second < first /\ third > second)
               /\ ~(second > first /\ third < second)

(***************************************************************************)
(* Properties of the tuner's API, hooks and lifecycle.                     *)
(***************************************************************************)
\* C6: the pacer ratio changes only in a step of applyTuningDecision;
\* collecting a sample, GetMetrics and GetStats leave it as it was.
PacerChangedOnlyByExecutor ==
    [][ gcPercent' # gcPercent
        => \E w \in 1..Len(workers) :
              /\ At(w, "apply")
              /\ workers'[w].pc # "apply"
              /\ gcPercent' = workers[w].decision.NewGOGC ]_vars

\* C7: while a subscriber hook runs, its worker does not hold t.mu, and no
\* worker is ever stuck inside a hook waiting for t.mu.
HooksCalledWithoutLock ==
    \A w \in 1..Len(workers) :
        /\ workers[w].pc \in { "metricsHook", "decisionHook" } => mu # w
        /\ workers[w].pc # "blocked"

\* C8: once Stop has returned without error, no decision is applied to the
\* pacer, appended to the decision history or delivered to the decision hook.
NoDecisionAfterStop ==
    [][ cancelled
        => /\ decisionHistory' = decisionHistory
           /\ totalDecisions' = totalDecisions
           /\ hookLog'.decisions = hookLog.decisions
           /\ gcPercent' \in { gcPercent, -1 } ]_vars

\* C9: after a successful Stop the running flag never becomes true again.
StoppedIsTerminal == [][ cancelled => ~running' ]_vars

\* C10: Start returns an error exactly when the tuner is already running and
\* Stop exactly when it is not; a call that returns an error leaves the
\* running flag, the number of workers and the cancellation as they were.
RefusedCallsChangeNothing ==
    [][ ret' # ret
        => /\ ret'.op = "Start" => (ret'.err # "nil" <=> running)
           /\ ret'.op = "Stop" => (ret'.err # "nil" <=> ~running)
           /\ ret'.err # "nil"
              => /\ running' = running
                 /\ cancelled' = cancelled
                 /\ Len(workers') = Len(workers) ]_vars

\* Stop has been refused on a tuner that was stopped before, with its one
\* worker still there.
StopRefusedAfterStop ==
    /\ ret = [ op |-> "Stop", err |-> "tuner is not running" ]
    /\ cancelled
    /\ ~running
    /\ Len(workers) = 1

(***************************************************************************)
(* Properties of a tick.                                                   *)
(***************************************************************************)
\* C11: a panic inside a tick, in either subscriber hook, ends that tick
\* only: the worker is back at the select of monitorLoop with t.mu free, and
\* no worker waiting for a tick ever holds t.mu.
PanicsAreContained ==
    [][ /\ hookLog'.panics # hookLog.panics
           => /\ mu' = 0
              /\ \A w \in 1..Len(workers) :
                    workers'[w] # workers[w] => workers'[w].pc = "select"
        /\ \A w \in 1..Len(workers') :
              workers'[w].pc = "select" => mu' # w ]_vars

\* A hook has panicked and a later tick has run to the end of
\* applyTuningDecision.
FullCycleAfterPanic ==
    /\ hookLog.panics > 0
    /\ \E w \in 1..Len(workers) :
          workers[w].pc = "select" /\ workers[w].outcome = "applied"

\* C12: every write of mutable tuner state is made by a goroutine holding
\* t.mu: no step writes the running flag, a history, a counter, lastGOGC or
\* a hook reference while another goroutine holds the lock.
WritesHoldTheLock ==
    [][ << running, metricsHistory, decisionHistory, totalDecisions,
           stabilityCount, lastGOGC, onTuningDecision, onMetricsUpdate >>'
          # << running, metricsHistory, decisionHistory, totalDecisions,
               stabilityCount, lastGOGC, onTuningDecision, onMetricsUpdate >>
        => mu = 0 ]_vars

\* C13: within a tick the sample is appended to the sample history, then
\* the metrics hook is called with that sample, then the decision is
\* computed, then the pacer is set and the decision appended, and only then
\* the decision hook is called.  With the subscribers set before Start, the
\* metrics hook has been called once per tick exactly from the append on,
\* and the decision hook once per applied decision.
EventsInOrder ==
    /\ hookLog.decisions <= totalDecisions
    /\ onTuningDecision # "nil" => hookLog.decisions = totalDecisions
    /\ \A w \in 1..Len(workers) :
          LET pc == workers[w].pc
              beforeHook == pc \in { "collect", "append", "metricsHook" }
          IN  /\ pc \in { "metricsHook", "decide", "apply", "decisionHook" }
                 => /\ metricsHistory # << >>
                    /\ workers[w].metrics = metricsHistory[Len(metricsHistory)]
              /\ onMetricsUpdate # "nil"
                 => hookLog.metrics = IF beforeHook THEN ticks - 1 ELSE ticks
              /\ beforeHook \/ pc = "decide" => workers[w].decision = NoDecision
              /\ pc = "apply"
                 => /\ workers[w].decision.kind = "decision"
                    /\ \A d \in RecordedDecisions :
                          d.Timestamp < workers[w].decision.Timestamp
              /\ pc = "decisionHook"
                 => /\ workers[w].decision = decisionHistory[Len(decisionHistory)]
                    /\ gcPercent = workers[w].decision.NewGOGC

\* The decision hook is running in a tick whose metrics hook has run.
BothHooksInOneTick ==
    /\ onMetricsUpdate # "nil"
    /\ hookLog.metrics = ticks
    /\ \E w \in 1..Len(workers) : At(w, "decisionHook")

(***************************************************************************)
(* Properties of the histories and counters.                               *)
(***************************************************************************)
\* C14: totalDecisions is the number of decisions in the decision history
\* plus the number dropped from it, and it grows by exactly one in each step
\* of applyTuningDecision and in no other step.
TotalDecisionsCounts ==
    [][ /\ Len(decisionHistory') =
              IF totalDecisions' < maxDecisions THEN totalDecisions' ELSE maxDecisions
        /\ totalDecisions' # totalDecisions \/ decisionHistory' # decisionHistory
           => /\ totalDecisions' = totalDecisions + 1
              /\ \E w \in 1..Len(workers) :
                    /\ At(w, "apply")
                    /\ workers'[w].pc # "apply"
                    /\ decisionHistory'[Len(decisionHistory')]
                           = RecordedDecision(workers[w].decision)
              /\ Len(decisionHistory') =
                    IF Len(decisionHistory) < maxDecisions
                    THEN Len(decisionHistory) + 1 ELSE maxDecisions ]_vars

\* More decisions have been applied than the decision history holds.
DecisionsDropped ==
    /\ totalDecisions > maxDecisions
    /\ Len(decisionHistory) = maxDecisions

\* C15: the sample history holds at most 100 samples and the decision
\* history at most 50 decisions; an append past the bound drops exactly the
\* oldest entry, so each history is the most recent entries in arrival order.
HistoriesKeepMostRecent ==
    [][ /\ Len(metricsHistory') <= maxHistory
        /\ Len(decisionHistory') <= maxDecisions
        /\ metricsHistory' # metricsHistory
           => metricsHistory' =
                 Append(IF Len(metricsHistory) = maxHistory
                        THEN Tail(metricsHistory) ELSE metricsHistory,
                        metricsHistory'[Len(metricsHistory')])
        /\ decisionHistory' # decisionHistory
           => decisionHistory' =
                 Append(IF Len(decisionHistory) = maxDecisions
                        THEN Tail(decisionHistory) ELSE decisionHistory,
                        decisionHistory'[Len(decisionHistory')])
        /\ \A i \in 1..(Len(metricsHistory') - 1) :
              metricsHistory'[i].Timestamp <= metricsHistory'[i + 1].Timestamp
        /\ \A i \in 1..(Len(decisionHistory') - 1) :
              decisionHistory'[i].Timestamp <= decisionHistory'[i + 1].Timestamp ]_vars

\* Both histories are full and have dropped their first entries.
BothHistoriesWrapped ==
    /\ Len(metricsHistory) = maxHistory
    /\ metricsHistory[1].Timestamp > config.MonitorInterval
    /\ Len(decisionHistory) = maxDecisions
    /\ decisionHistory[1].Timestamp > 2 * config.MonitorInterval

(***************************************************************************)
(* Properties of applyTuningDecision, makeTuningDecision and GetMetrics.   *)
(***************************************************************************)
\* C17: no decision is emitted on a tick whose sample history, this tick's
\* sample included, has fewer than 2 entries; the first tick emits, applies
\* and reports no decision, whatever its sample.
NoDecisionFromOneSample ==
    /\ PendingDecisions # {} \/ totalDecisions > 0 \/ hookLog.decisions > 0
       => Len(metricsHistory) >= 2
    /\ ticks <= 1
       => /\ decisionHistory = << >>
          /\ \A w \in 1..Len(workers) :
                /\ workers[w].pc \notin { "apply", "decisionHook" }
                /\ workers[w].outcome # "applied"
    /\ \A w \in 1..Len(workers) :
          workers[w].pc = "select" /\ workers[w].outcome # "none" /\ Len(metricsHistory) < 2
          => workers[w].outcome = "history"

\* The first tick has ended at the history gate.
FirstTickEndsAtHistoryGate ==
    /\ ticks = 1
    /\ Len(metricsHistory) = 1
    /\ \E w \in 1..Len(workers) :
          workers[w].pc = "select" /\ workers[w].outcome = "history"

\* C18: a GetMetrics call returns a sample collected at the call, and leaves
\* the sample history, the decision history and the counters as they were,
\* also between the steps of a tick and from inside a subscriber hook.
GetMetricsStoresNothing ==
    [][ ret' # ret /\ ret'.op = "GetMetrics"
        => /\ ret'.val.Timestamp = now
           /\ ret'.val.CurrentGOGC = gcPercent
           /\ ret'.val.NumGC = runtime.NumGC
           /\ UNCHANGED << metricsHistory, decisionHistory, totalDecisions,
                           stabilityCount, lastGOGC, running >> ]_vars

\* GetMetrics has returned a sample while a tick was between collecting its
\* own sample and applying its decision.
GetMetricsDuringTick ==
    /\ ret.op = "GetMetrics"
    /\ ret.val.Timestamp = now
    /\ metricsHistory # << >>
    /\ \E w \in 1..Len(workers) : workers[w].pc \in { "append", "decide", "apply" }

\* C19: the oscillation guard suppresses exactly when the decision history
\* has at least 4 entries, the last 4 hold a decision with NewGOGC > OldGOGC
\* and one with NewGOGC < OldGOGC, and the oldest of the 4 is younger than
\* StabilizationWindow; a decision with NewGOGC = OldGOGC is neither.
GuardNeedsUpAndDown ==
    ret.op = "shouldSkipDueToOscillation"
    => LET n == Len(decisionHistory)
           last4 == { decisionHistory[i] : i \in (n - 3)..n }
       IN  ret.val <=> /\ n >= 4
                       /\ \E d \in last4 : d.NewGOGC > d.OldGOGC
                       /\ \E d \in last4 : d.NewGOGC < d.OldGOGC
                       /\ now - decisionHistory[n - 3].Timestamp
                             < config.StabilizationWindow

\* C20: a config that NewTuner accepts has MonitorInterval >= 1 s,
\* 10 <= MinGOGC <= MaxGOGC <= 2000, TargetLatency > 0, MemoryLimitPercent in
\* [0.1, 1.0], TuningAggressiveness in [0.1, 2.0], StabilizationWindow > 0
\* and MaxChangePerInterval > 0.
AcceptedConfigMeetsEveryConstraint ==
    ret = [ op |-> "NewTuner", err |-> "nil" ]
    => /\ config.MonitorInterval >= 1
       /\ 10 <= config.MinGOGC
       /\ config.MinGOGC <= config.MaxGOGC
       /\ config.MaxGOGC <= 2000
       /\ config.TargetLatency > 0
       /\ ~FLt(config.MemoryLimitPercent, Rat(1, 10))
       /\ ~FGt(config.MemoryLimitPercent, FInt(1))
       /\ ~FLt(config.TuningAggressiveness, Rat(1, 10))
       /\ ~FGt(config.TuningAggressiveness, FInt(2))
       /\ config.StabilizationWindow > 0
       /\ config.MaxChangePerInterval > 0

\* C21: NewTuner accepts every config with MonitorInterval >= 1 s,
\* 10 <= MinGOGC <= MaxGOGC <= 2000, TargetLatency > 0, MemoryLimitPercent in
\* [0.1, 1.0], TuningAggressiveness in [0.1, 2.0], StabilizationWindow > 0
\* and MaxChangePerInterval > 0.
ConfigMeetingEveryConstraintAccepted ==
    /\ ret.op = "NewTuner"
    /\ config.MonitorInterval >= 1
    /\ 10 <= config.MinGOGC
    /\ config.MinGOGC <= config.MaxGOGC
    /\ config.MaxGOGC <= 2000
    /\ config.TargetLatency > 0
    /\ ~FLt(config.MemoryLimitPercent, Rat(1, 10))
    /\ ~FGt(config.MemoryLimitPercent, FInt(1))
    /\ ~FLt(config.TuningAggressiveness, Rat(1, 10))
    /\ ~FGt(config.TuningAggressiveness, FInt(2))
    /\ config.StabilizationWindow > 0
    /\ config.MaxChangePerInterval > 0
    => ret.err = "nil"

\* C16: applyTuningDecision is a swap on the pacer. The step that applies a
\* decision sets the pacer to its NewGOGC and records (and hands to the
\* decision hook) as OldGOGC the value the pacer held just before the step;
\* the pacer still holds NewGOGC when applyTuningDecision returns.
ApplyIsASwap ==
    [][ \A w \in 1..Len(workers) :
          /\ At(w, "apply") /\ workers'[w].pc # "apply"
             => LET recorded == decisionHistory'[Len(decisionHistory')]
                IN  /\ gcPercent' = workers[w].decision.NewGOGC
                    /\ recorded.NewGOGC = workers[w].decision.NewGOGC
                    /\ recorded.OldGOGC = gcPercent
                    /\ workers'[w].pc = "decisionHook"
                       => workers'[w].decision = recorded
          /\ At(w, "decisionHook") /\ workers'[w].pc # "decisionHook"
             => gcPercent' = workers[w].decision.NewGOGC ]_vars

\* applyTuningDecision has returned from a decision whose computed OldGOGC
\* was not the value the pacer held.
SwappedOverComputedOld ==
    \E w \in 1..Len(workers) :
        /\ workers[w].pc = "select"
        /\ workers[w].outcome = "applied"
        /\ hookLog.decisions > 0
        /\ decisionHistory # << >>
        /\ LET recorded == decisionHistory[Len(decisionHistory)]
           IN  /\ recorded.OldGOGC # recorded.Metrics.CurrentGOGC
               /\ gcPercent = recorded.NewGOGC

(***************************************************************************)
(* Properties of the control law.                                          *)
(***************************************************************************)
\* Memory pressure in [0.4, 0.8] and frequency in [0.1, 2]: the ranges in
\* which factors 2 and 3 of calculateTargetGOGC stay at 1.
NeutralMemoryAndFrequency(metrics) ==
    /\ ~FLt(metrics.MemoryPressure, Rat(4, 10))
    /\ ~FGt(metrics.MemoryPressure, Rat(8, 10))
    /\ ~FLt(metrics.GCFrequency, Rat(1, 10))
    /\ ~FGt(metrics.GCFrequency, FInt(2))

\* C22: for a sample with pause 0, neutral memory pressure and neutral
\* frequency the latency factor is 1, calculateTargetGOGC returns the
\* current ratio, and the tick emits no decision.
ZeroPauseKeepsRatio ==
    \A w \in 1..Len(workers) :
        LET metrics == workers[w].metrics
        IN  workers[w].pc \in { "decide", "apply" }
            /\ metrics.GCPauseTime = 0
            /\ NeutralMemoryAndFrequency(metrics)
            => /\ workers[w].pc = "decide"
               /\ latencyFactor(metrics) = FInt(1)
               /\ calculateTargetGOGC(metrics) = { metrics.CurrentGOGC }

\* C23: with no container memory limit known every collected sample has
\* MemoryPressure = 0, and the memory factor of calculateTargetGOGC is 1 for
\* it.
NoLimitNoMemoryFactor ==
    containerResources.MemoryLimit = 0
    => \A w \in 1..Len(workers) :
          workers[w].metrics # NoMetrics
          => /\ workers[w].metrics.MemoryPressure = FInt(0)
             /\ memoryFactor(workers[w].metrics) = FInt(1)

\* The sample has pause P (microseconds), memory pressure m and frequency f,
\* and was collected at ratio 100 with aggressiveness 0.5 and TargetLatency
\* 10 ms.
LawCase(metrics, P, m, f) ==
    /\ config.TuningAggressiveness = Rat(1, 2)
    /\ config.TargetLatency = 10000
    /\ metrics # NoMetrics
    /\ metrics.CurrentGOGC = 100
    /\ metrics.GCPauseTime = P
    /\ metrics.MemoryPressure = m
    /\ metrics.GCFrequency = f

\* C24: with aggressiveness 0.5, TargetLatency 10 ms and ratio 100,
\* calculateTargetGOGC returns more than 100 for (P = 50 ms, m = 0.5, f = 1),
\* less than 100 for (P = 2 ms, m = 0.9, f = 1), and a target within 10 of
\* 100 for (P = 10 ms, m = 0.5, f = 1), for which the tick emits no decision.
\* (The second target is 100 * 0.89: 89 here, 88 where the float64 product
\* falls just short of 89.)
LawExamples ==
    \A w \in 1..Len(workers) :
        LET metrics == workers[w].metrics
            targets == calculateTargetGOGC(metrics)
        IN  /\ LawCase(metrics, 50000, Rat(1, 2), FInt(1))
               => \A target \in targets : target > 100
            /\ LawCase(metrics, 2000, Rat(9, 10), FInt(1))
               => \A target \in targets : target < 100
            /\ LawCase(metrics, 10000, Rat(1, 2), FInt(1))
               => /\ \A target \in targets : abs(target - 100) < 10
                  /\ workers[w].pc # "apply"
                  /\ workers[w].outcome # "applied"

\* The tick of the third example has ended at the minimum-change gate.
OnTargetTickStable ==
    /\ config.TuningAggressiveness = Rat(1, 2)
    /\ Len(metricsHistory) = LawHistory + 1
    /\ LET metrics == metricsHistory[Len(metricsHistory)]
       IN  /\ LawCase(metrics, 10000, Rat(1, 2), FInt(1))
           /\ calculateTargetGOGC(metrics) = { 100 }
    /\ \E w \in 1..Len(workers) :
          workers[w].pc = "select" /\ workers[w].outcome = "stable"

\* The control law asks for more than the ratio of a sample collected 5
\* below MaxGOGC with the pause over TargetLatency.
IncreaseAskedNearMax(metrics, target) ==
    /\ metrics.CurrentGOGC = config.MaxGOGC - 5
    /\ metrics.GCPauseTime > config.TargetLatency
    /\ target > metrics.CurrentGOGC

GCFrequencyFromLastSample ==
    [][ \A w \in 1..Len(workers) :
          At(w, "collect") /\ workers'[w].pc = "append"
          => LET f == workers'[w].metrics.GCFrequency
                 n == Len(metricsHistory)
             IN  /\ ~FLt(f, FInt(0))
                 /\ IF n = 0 THEN f = FInt(0)
                    ELSE IF now - metricsHistory[n].Timestamp <= 0 THEN f = FInt(0)
                    ELSE f = Rat(runtime.NumGC - metricsHistory[n].NumGC,
                                 now - metricsHistory[n].Timestamp) ]_vars

\* A sample collected at the instant of the last sample of the history,
\* after collections the first sample did not see.
SampleAtSameInstant ==
    \E w \in 1..Len(workers) :
        /\ workers[w].pc = "append"
        /\ metricsHistory # << >>
        /\ metricsHistory[Len(metricsHistory)].Timestamp = workers[w].metrics.Timestamp
        /\ workers[w].metrics.NumGC > 0
        /\ workers[w].metrics.GCFrequency = FInt(0)

(***************************************************************************)
(* Properties of container resource detection.                             *)
(***************************************************************************)
\* A file holds a limit that can be used: a number above 0 and below 1<<63.
UsableLimit(file) ==
    /\ file.kind = "number"
    /\ file.value > 0
    /\ file.value < Uint64Half

\* C27: detectMemoryLimit returns the limit of the first of cgroup v2
\* memory.max, cgroup v1 memory.limit_in_bytes and MemTotal * 1024 that is
\* usable; a source that is missing, no number, "max", 0 or >= 1<<63 is
\* passed over, and with no usable source the limit is 0.
FirstUsableMemoryLimit ==
    ret.op = "detectMemoryLimit"
    => LET bytes == IF files.memTotal.kind = "number"
                    THEN Number(files.memTotal.value * 1024)
                    ELSE files.memTotal
       IN  ret.val =
              IF UsableLimit(files.memoryMax) THEN files.memoryMax.value
              ELSE IF UsableLimit(files.legacyLimit) THEN files.legacyLimit.value
              ELSE IF UsableLimit(files.cgroupLimit) THEN files.cgroupLimit.value
              ELSE IF UsableLimit(bytes) THEN bytes.value
              ELSE 0

\* C28: a limit that detectMemoryLimit or detectCPULimit returns without an
\* error is above 0.
DetectedLimitPositive ==
    /\ ret.op = "detectMemoryLimit" /\ ret.err = "nil" => ret.val > 0
    /\ ret.op = "detectCPULimit" /\ ret.err = "nil" => FGt(ret.val, FInt(0))

(***************************************************************************)
(* Properties of cancellation.                                             *)
(***************************************************************************)
\* C29: once Stop has returned without error, every worker goroutine
\* eventually leaves monitorLoop, whatever the worker was doing when Stop
\* was called.
WorkerLeavesAfterStop ==
    cancelled ~> (\A w \in 1..Len(workers) : workers[w].pc = "exited")

\* C38: whatever the order of the Start and Stop calls, at most one worker
\* is inside a tuning cycle at a time, and a worker spawned by a Start that
\* follows a successful Stop (every worker but the first) leaves monitorLoop
\* without taking a tick.
OneWorkerTicks ==
    /\ Cardinality({ w \in 1..Len(workers) :
                       workers[w].pc \notin { "select", "exited" } }) <= 1
    /\ \A w \in 2..Len(workers) :
          /\ workers[w].pc \in { "select", "exited" }
          /\ workers[w].outcome = "none"

(***************************************************************************)
(* Properties of the observability server's history.                       *)
(***************************************************************************)
\* C30: after any number of recordMetrics calls the server's history holds
\* at most maxMetrics entries, and they are the most recently recorded
\* samples in the order they were recorded.
ObsHistoryKeepsMostRecent ==
    obs.kind = "server" =>
        LET history == obs.metricsHistory
            n == Len(history)
        IN  /\ n <= obs.maxMetrics
            /\ \A i \in 1..n : history[i].Metrics = hookLog.metrics - n + i

\* The history is full and its oldest samples have been dropped.
ObsHistoryWrapped ==
    /\ obs.kind = "server"
    /\ Len(obs.metricsHistory) = obs.maxMetrics
    /\ obs.metricsHistory[1].Metrics > 1

\* C31: after every recordMetrics call no retained entry was recorded longer
\* ago than MetricsRetention, and the entry just recorded is retained.
RetainedWithinRetention ==
    (obs.kind = "server" /\ hookLog.metrics > 0) =>
        LET history == obs.metricsHistory
        IN  /\ \A i \in 1..Len(history) :
                  now - history[i].Timestamp <= obs.config.MetricsRetention
            /\ history # << >>
            /\ history[Len(history)].Metrics = hookLog.metrics

(***************************************************************************)
(* Properties of the gates of makeTuningDecision.                          *)
(***************************************************************************)
\* C32: a tick with at least 2 samples whose target is within 10 of the
\* measured ratio emits no decision, leaves the decision history alone and
\* the pacer at the ratio the tick measured, and adds one to stabilityCount;
\* applying a decision resets stabilityCount to 0.
StableTickKeepsState ==
    [][ \A w \in 1..Len(workers) :
          /\ ( /\ At(w, "decide")
               /\ workers'[w].pc # "decide"
               /\ ~NotEnoughData
               /\ \A rawTarget \in calculateTargetGOGC(workers[w].metrics) :
                     ChangeTooSmall(workers[w].metrics.CurrentGOGC, rawTarget) )
             => /\ workers'[w].pc = "select"
                /\ decisionHistory' = decisionHistory
                /\ stabilityCount' = stabilityCount + 1
                /\ gcPercent' = workers[w].metrics.CurrentGOGC
          /\ (At(w, "apply") /\ workers'[w].pc # "apply") => stabilityCount' = 0
      ]_vars

\* C33: a raw target further than MaxChangePerInterval from the measured
\* ratio r is moved to r + MaxChangePerInterval when it is above r and to
\* r - MaxChangePerInterval when it is below, and an emitted decision never
\* moves the ratio away from the raw target: NewGOGC >= r when the target is
\* above r, NewGOGC <= r when it is below.
DecisionFollowsTarget ==
    [][ \A w \in 1..Len(workers) :
          (At(w, "decide") /\ workers'[w].pc = "apply")
          => LET r == workers[w].metrics.CurrentGOGC
                 new == workers'[w].decision.NewGOGC
             IN  \A rawTarget \in calculateTargetGOGC(workers[w].metrics) :
                    makeTuningDecision(workers[w].metrics, rawTarget)
                        = workers'[w].decision
                    => /\ rawTarget - r > config.MaxChangePerInterval
                          => RateLimit(r, rawTarget) = r + config.MaxChangePerInterval
                       /\ r - rawTarget > config.MaxChangePerInterval
                          => RateLimit(r, rawTarget) = r - config.MaxChangePerInterval
                       /\ rawTarget > r => new >= r
                       /\ rawTarget < r => new <= r
      ]_vars

(***************************************************************************)
(* Properties of a tick under the oscillation guard.                       *)
(***************************************************************************)
\* Worker w is in a tick, before or at makeTuningDecision, that the
\* oscillation guard suppresses.
SuppressedTick(w) ==
    /\ workers[w].pc \in { "collect", "append", "metricsHook", "decide" }
    /\ shouldSkipDueToOscillation

\* C34: a tick that the oscillation guard suppresses appends its sample and
\* calls the metrics hook, and leaves the pacer ratio, the decision history
\* and totalDecisions as they were; it calls no decision hook.
SuppressedTickKeepsState ==
    [][ \A w \in 1..Len(workers) :
          SuppressedTick(w)
          => /\ At(w, "append") /\ workers'[w].pc # "append"
                => metricsHistory' = Append(metricsHistory, workers[w].metrics)
             /\ At(w, "metricsHook") /\ workers'[w].pc # "metricsHook"
                => hookLog'.metrics = hookLog.metrics + 1
             /\ workers'[w].pc \notin { "apply", "decisionHook" }
             /\ hookLog'.decisions = hookLog.decisions
             /\ UNCHANGED << decisionHistory, totalDecisions >>
             /\ gcPercent' = gcPercent
      ]_vars

\* The oldest of the last four decisions is StabilizationWindow old or more.
WindowOver ==
    /\ Len(decisionHistory) >= 4
    /\ now - decisionHistory[Len(decisionHistory) - 3].Timestamp
           >= config.StabilizationWindow

\* C37: the guard does not suppress for ever.  While it suppresses a tick the
\* decision history stays as it is; once the oldest of the last four
\* decisions is StabilizationWindow old the guard no longer suppresses, and
\* a tick that passes the other gates emits a decision.
SuppressionEnds ==
    [][ \A w \in 1..Len(workers) :
          /\ SuppressedTick(w) => decisionHistory' = decisionHistory
          /\ WindowOver => ~shouldSkipDueToOscillation
          /\ ( /\ At(w, "decide")
               /\ workers'[w].pc # "decide"
               /\ WindowOver
               /\ ~NotEnoughData
               /\ ~ConfidenceTooLow(calculateConfidence(workers[w].metrics))
               /\ \A rawTarget \in calculateTargetGOGC(workers[w].metrics) :
                     ~ChangeTooSmall(workers[w].metrics.CurrentGOGC, rawTarget) )
             => /\ workers'[w].pc = "apply"
                /\ workers'[w].decision.kind = "decision"
      ]_vars

\* A decision has been emitted on the first tick after the window of a
\* history that went both ways: the tick before it was suppressed.
DecisionAfterSuppression ==
    /\ ticks >= 2
    /\ shouldSkipWhileMixed
    /\ WindowOver
    /\ now - decisionHistory[Len(decisionHistory) - 3].Timestamp
           < config.StabilizationWindow + config.MonitorInterval
    /\ \E w \in 1..Len(workers) : At(w, "apply")

(***************************************************************************)
(* Properties of calculateConfidence.                                      *)
(***************************************************************************)
\* C35: the confidence is 1 multiplied by 0.7 exactly when the history has
\* fewer than 5 samples, by 0.8 exactly when the coefficient of variation of
\* the pause over the last 3 samples exceeds 0.3, by 0.9 exactly when the
\* ratio is within 20 of MinGOGC or of MaxGOGC, and by 0.8 exactly when the
\* memory pressure is <= 0.05 or >= 0.95.
ConfidenceIsProductOfFactors ==
    ret.op = "calculateConfidence" =>
        LET metrics == workers[1].metrics
            n == Len(metricsHistory)
            pauses == [ i \in 1..3 |-> metricsHistory[n - 3 + i].GCPauseTime ]
            short == n < 5
            unstable == n >= 3 /\ FGt(calculateVariationSq(pauses), Rat(9, 100))
            nearBound == \/ abs(metrics.CurrentGOGC - config.MinGOGC) <= 20
                         \/ abs(metrics.CurrentGOGC - config.MaxGOGC) <= 20
            extreme == \/ ~FGt(metrics.MemoryPressure, Rat(5, 100))
                       \/ ~FLt(metrics.MemoryPressure, Rat(95, 100))
        IN  ret.val =
                FMul(FMul(FMul(IF short THEN Rat(7, 10) ELSE FInt(1),
                               IF unstable THEN Rat(8, 10) ELSE FInt(1)),
                          IF nearBound THEN Rat(9, 10) ELSE FInt(1)),
                     IF extreme THEN Rat(8, 10) ELSE FInt(1))

(***************************************************************************)
(* Properties of the response to memory pressure.                          *)
(***************************************************************************)
\* The decisions made from a sample taken at a pressure of 0.95, in the
\* order in which they were recorded.
AfterStep ==
    SelectSeq(decisionHistory,
              LAMBDA d : d.Metrics.MemoryPressure = Rat(HighHeap, 800))

\* C36: with the pause held constant, the first decision emitted after the
\* memory pressure has stepped from 0.3 to 0.95 lowers the ratio: it has
\* NewGOGC < OldGOGC, as computed and as recorded.
FirstDecisionAfterStepLowers ==
    /\ AfterStep # << >> => AfterStep[1].NewGOGC < AfterStep[1].OldGOGC
    /\ AfterStep = << >>
       => \A d \in PendingDecisions :
             d.Metrics.MemoryPressure = Rat(HighHeap, 800) => d.NewGOGC < d.OldGOGC

(***************************************************************************)
(* Properties of the metrics hook.                                         *)
(***************************************************************************)
\* The workers between the nil check of the metrics hook and its call.
Calling == { w \in 1..Len(workers) : At(w, "metricsCall") }

=============================================================================
